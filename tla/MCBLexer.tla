------------------------------ MODULE MCBLexer ------------------------------
(***************************************************************************)
(* Texts for model-checking BLexer: lexemes written one behind the other,  *)
(* with what they say, and all short texts without a meaning.              *)
(***************************************************************************)
EXTENDS BNum

Lexeme(chars, parts, tokens) == [chars |-> chars, parts |-> parts, tokens |-> tokens]
Tokens(type, says) == <<[type |-> type, says |-> says, escaped |-> FALSE]>>
Each(c, one, all)  == [i \in DOMAIN c |-> IF i = 1 THEN one ELSE all]

Space(c)      == Lexeme(c, Each(c, "sp", "sp"), <<>>)
Sign(c, part, type) == Lexeme(c, Each(c, part, part \o "2"), Tokens(type, c))
Ident(type, c) == Lexeme(c, Each(c, "first", "more"), Tokens(type, c))
Label(c)      == Lexeme(Append(c, ":"), Append(Each(c, "first", "more"), "colon"), Tokens("LABEL", c))
Number(c)     == Lexeme(c, [i \in DOMAIN c |-> IF i = 1 THEN "digit" ELSE IF c[i] = "h" THEN "h" ELSE "digits"],
                        Tokens("NUM", c))
Remark(c)     == Lexeme(c, [i \in DOMAIN c |-> IF i = 1 THEN IF c[1] = ";" THEN "semi" ELSE "slash"
                                               ELSE IF i = 2 /\ c[1] = "/" THEN "slash2" ELSE "remark"], <<>>)
Block(c)      == Lexeme(<<"/", "*">> \o c \o <<"*", "/">>,
                        <<"blk", "blk2">> \o Each(c, "inner", "inner") \o <<"end", "end2">>, <<>>)

(* A string is a sequence of strokes: a character, two quotes for one, an  *)
(* escape and what it says, a backslash.                                   *)
Stroke(chars, parts, says) == [chars |-> chars, parts |-> parts, says |-> says]
Char(c)      == Stroke(<<c>>, <<"char">>, c)
Twin(q)      == Stroke(<<q, q>>, <<"twin", "twin2">>, q)
Escaped(c, s) == Stroke(<<"\\", c>>, <<"esc", "esc2">>, s)
Lone         == Stroke(<<"\\">>, <<"lone">>, "\\")
Quoted(q, strokes) ==
  Lexeme(<<q>> \o FlattenSeq([i \in DOMAIN strokes |-> strokes[i].chars]) \o <<q>>,
         <<"open">> \o FlattenSeq([i \in DOMAIN strokes |-> strokes[i].parts]) \o <<"close">>,
         <<[type |-> "STR", says |-> [i \in DOMAIN strokes |-> strokes[i].says],
            escaped |-> \E i \in DOMAIN strokes : strokes[i].parts # <<"char">>]>>)
Plain(q, inside) == Quoted(q, [i \in DOMAIN inside |-> Char(inside[i])])

-----------------------------------------------------------------------------
Names == {Ident("KEY", c) : c \in {<<"g">>, <<"a", "1">>, <<"_", "$", "x">>, <<"$", "$", "$">>, <<"$", "a">>}}
           \cup {Ident("DOLLAR", <<"$">>), Ident("DDOLL", <<"$", "$">>)}
Labels == {Label(c) : c \in {<<"g">>, <<"$", "1">>}}
Nums  == {Number(c) : c \in {<<"1">>, <<"0", "x", "a">>, <<"1", "a", "h">>,
                                  <<"1", ".", "0">>, <<"0", "1", "a">>}}
(* All numbers the lexer takes as one, up to four characters long.         *)
ShortNums ==
  {c \in BoundedSeq({"0", "1", "a", "b", "x", "h", "."}, 4) :
     /\ c # <<>> /\ c[1] \in Digits
     /\ Cardinality({i \in DOMAIN c : c[i] = "."}) <= 1
     /\ \A i \in DOMAIN c : (c[i] = "x" => i = 2 /\ c[1] = "0") /\ (c[i] = "h" => i = Len(c))}
Strings ==
  {Plain("'", <<>>), Plain("'", <<"a", ";">>), Plain("'", <<"''", "a">>), Plain("''", <<"/", "*">>),
   Plain("'", <<"a", "CR", "LF", "g">>), Plain("''", <<"LF">>), Plain("'", <<"CR">>)}
  \cup {Quoted("'", <<Char("a"), Twin("'")>>),
        Quoted("'", <<Char("a"), Char("g"), Char("1"), Twin("'"), Char("a")>>),
        Quoted("''", <<Twin("''"), Char("CR"), Char("LF"), Escaped("n", "LF")>>),
        Quoted("'", <<Lone, Char("g")>>),
        Quoted("'", <<Escaped("t", "sp"), Char("a")>>),
        Quoted("'", <<Lone, Char("CR")>>)}
Symbols == {Sign(<<c>>, "mark", Marks[c]) : c \in DOMAIN Marks}
             \cup {Sign(<<"/">>, "div", "DIV"), Sign(<<">", ">">>, "rar", "RAR")}
LineEnds == {Lexeme(c, IF Len(c) = 2 THEN <<"eol", "lf">> ELSE <<"eol">>, Tokens("LNEND", c)) :
               c \in {<<"CR">>, <<"LF">>, <<"CR", "LF">>}}
ToEnd   == {Remark(c) : c \in {<<";", "'", "a">>, <<"/", "/", "*">>, <<";">>}}
Blocks  == {Block(c) :
              c \in {<<>>, <<"/">>, <<"*">>, <<"'", ";">>, <<"CR", "LF">>, <<"LF", "a">>,
                     <<"CR", "a">>, <<"LF", "CR", "LF">>}}
Spaces  == Blocks \cup {Space(<<"sp">>)}
All     == UNION {Names, Labels, Nums, Strings, Symbols, LineEnds, ToEnd, Spaces}

(* One lexeme of each kind, and those where something ends or is counted.  *)
Few == UNION {LineEnds, Labels}
         \cup {Ident("KEY", <<"g">>), Ident("DOLLAR", <<"$">>), Number(<<"1", "a", "h">>),
               Sign(<<"/">>, "div", "DIV"), Sign(<<":">>, "mark", "COLON"), Space(<<"sp">>),
               Remark(<<";", "'", "a">>), Block(<<"/">>), Block(<<"LF", "CR", "LF">>),
               Plain("'", <<"a", "CR", "LF", "g">>), Quoted("''", <<Twin("''"), Char("LF")>>)}

(* May r be written right behind l without changing what l is?             *)
Type(l)     == IF l.tokens = <<>> THEN "none" ELSE l.tokens[1].type
Begins(r, C) == r.chars[1] \in C
Joins(l, r) ==
  /\ Type(l) \in {"KEY", "DOLLAR", "DDOLL"} => ~Begins(r, NameChar \cup {":"})
  /\ Type(l) = "NUM" => ~Begins(r, NameChar \cup {"."})
  /\ Type(l) = "STR" => ~Begins(r, {l.chars[1]})
  /\ Type(l) = "DIV" => ~Begins(r, {"/", "*"})
  /\ l.chars = <<"CR">> => ~Begins(r, {"LF"})
  /\ l \in ToEnd => r \in LineEnds

Written(ls) == [chars  |-> FlattenSeq([i \in DOMAIN ls |-> ls[i].chars]),
                parts  |-> FlattenSeq([i \in DOMAIN ls |-> ls[i].parts]),
                tokens |-> FlattenSeq([i \in DOMAIN ls |-> ls[i].tokens]),
                plain  |-> TRUE]
Joined(S) == {ls \in S : \A i \in 2..Len(ls) : Joins(ls[i - 1], ls[i])}
Unread(chars) == [chars |-> chars, parts |-> <<>>, tokens |-> <<>>, plain |-> FALSE]

Tricky == {"CR", "LF", "'", "\\", "n", "/", "*", "a"}
MCTexts ==
  {Written(ls) : ls \in Joined({<<l>> : l \in All \cup {Number(c) : c \in ShortNums}} \cup (All \X All) \cup (Few \X Few \X Few))}
    \cup {Unread(c) : c \in BoundedSeq(Chars, 2) \cup BoundedSeq(Tricky, 4)
                              \cup [1..4 -> {"0", "1", ".", "x", "h"}]}
=============================================================================

------------------------------ MODULE MCBLine -------------------------------
(***************************************************************************)
(* Sources for model-checking BLine: statements written one behind the     *)
(* other, with the part each token plays, and all short token sequences.   *)
(***************************************************************************)
EXTENDS BLine

(* Tokens with their roles. *)
Tok(t, role) == <<[t |-> t, role |-> role]>>
AllOf(ts, role) == [i \in DOMAIN ts |-> [t |-> ts[i], role |-> role]]

Operands  == {<<"eax">>, <<"num">>, <<"[", "name", "+", "num", "+">>, <<"es:", "[", "eax", "+">>,
              <<"dword", "[", "$", "+">>, <<"name", "+", "str">>,
              <<"short", "num">>}
Values    == {<<"num">>, <<"name", "+", "$">>}
KeyTok(k) == Tok(k, "key")
Comma     == Tok(",", "sep")

Lists ==
  {AllOf(a, "item") : a \in Values} \cup {Tok("str", "text")}
    \cup {x \o Comma \o y : x, y \in {AllOf(a, "item") : a \in Values} \cup {Tok("str", "text")}}

Statements ==
  {KeyTok("mov") \o AllOf(a, "operand1") \o Comma \o AllOf(b, "operand2") : a, b \in Operands}
  \cup {KeyTok(k) \o AllOf(a, "operand1") : k \in {"inc", "jmp", "ret"}, a \in Operands}
  \cup {KeyTok("jmp") \o AllOf(a, "operand1") \o Tok(":", "colon") \o AllOf(b, "operand2") : a, b \in Values}
  \cup {KeyTok("name") \o Tok("equ", "equ") \o AllOf(a, "operand1") : a \in Values}
  \cup {KeyTok(k) \o Tok(n, "number") : k \in {"org"}, n \in Nums}
  \cup {KeyTok("bits") \o Tok("width", "number"), KeyTok("cli"), KeyTok("ret"),
        Tok(".", "dot") \o Tok("cpu", "cpu"), Tok("label:", "label")}
  \cup {KeyTok("db") \o l : l \in Lists}
  \cup {KeyTok(k) \o Tok("db", "db") \o l : k \in {"name", "eax"}, l \in Lists}
  \cup {KeyTok("inc") \o AllOf(a, "operand1") \o KeyTok("db") \o l : a \in Values, l \in Lists}

Short == {KeyTok("mov") \o Tok("eax", "operand1") \o Comma \o Tok("num", "operand2"),
          KeyTok("jmp") \o Tok("num", "operand1"), KeyTok("ret"), KeyTok("cli"), Tok("label:", "label"),
          KeyTok("bits") \o Tok("width", "number"), KeyTok("name") \o Tok("equ", "equ") \o Tok("num", "operand1"),
          KeyTok("db") \o Tok("num", "item") \o Comma \o Tok("str", "text"), Tok(".", "dot") \o Tok("cpu", "cpu")}
(* What another statement may follow on the same line. *)
Closed(s) == s[Len(s)].role \in {"label", "number", "cpu"} \/ s = KeyTok("cli")
Eol       == Tok("LNEND", "eol")
Finish    == Tok("END", "end")

Written(ts) == [tokens |-> [i \in DOMAIN ts |-> ts[i].t],
                roles  |-> [i \in DOMAIN ts |-> ts[i].role],
                plain  |-> TRUE]
Unread(ts)  == [tokens |-> Append(ts, "END"), roles |-> <<>>, plain |-> FALSE]

Texts(n, S) == {Unread(ts) : ts \in [1..n -> S]}
Loose       == {"mov", "jmp", "ret", "bits", "db", "name", "equ", "eax", "num", ",", ":", "+", ".",
                "LNEND", "label:"}
AllSources ==
  {Written(x \o e \o Finish) : x \in Statements, e \in {<<>>, Eol}}
    \cup {Written(x \o Eol \o y \o Eol \o z \o Finish) : x, y, z \in Short}
    \cup {Written(x \o y \o Finish) : x \in {s \in Short : Closed(s)}, y \in Statements}
    \cup Texts(1, Tokens \ {"END"}) \cup Texts(2, Tokens \ {"END"}) \cup Texts(3, Loose)
    \cup Texts(4, {"db", "name", "ret", "num", ",", "bits", "jmp", ":"})

(* As one set, which TLC computes once. *)
MCSources == {s \in AllSources : TRUE}
=============================================================================

---------------------------- MODULE BLexer_proofs ----------------------------
(* Proofs about the lexer, for every text and any number of passes: where it *)
(* stands and what it counts, of any text; what it reads, of a plain one.    *)
EXTENDS BNum, FiniteSetTheorems, SequenceTheorems, Induction, TLAPS

-----------------------------------------------------------------------------
(* What the invariants need: the lexer never stands between CR and LF; it    *)
(* has block comments behind it only; a token that is read began before it.  *)
NotSplit  == \A i \in DOMAIN buf : (i > 1 /\ i = bufc /\ buf[i - 1] = "CR") => buf[i] # "LF"
Behind    == \A i \in comments : i < bufc
Begun     == status \in {"alpha", "num", "str"} => tk.key \in 1..bufc
IInv      == WithinText /\ RowAndColumn /\ NotSplit /\ Behind /\ Begun

Rows == {i \in DOMAIN buf : i < bufc /\ Counted(i)}

LEMMA DomBuf == ASSUME WithinText
                PROVE  /\ DOMAIN buf = 1..Len(buf) /\ Len(buf) \in Nat
                       /\ \A i \in DOMAIN buf : buf[i] \in Chars
  BY DEF WithinText

LEMMA RowsFinite == ASSUME WithinText
                    PROVE  IsFiniteSet(Rows)
<1>1. IsFiniteSet(1..Len(buf))
  BY DomBuf, FS_Interval
<1> QED
  BY <1>1, DomBuf, FS_Subset DEF Rows

(* Characters that are passed over and are no line end the lexer counts.     *)
LEMMA Skipped ==
  ASSUME IInv, text' = text, NEW n \in 0..2, bufc' = bufc + n,
         line_start' = line_start, curr_row' = curr_row,
         comments \subseteq comments', Behind',
         \A i \in comments' : i < bufc => i \in comments,
         \A i \in DOMAIN buf : (bufc <= i /\ i < bufc + n) =>
            buf[i] # "CR" /\ (buf[i] = "LF" => i \in comments')
  PROVE  RowAndColumn' /\ NotSplit'
<1> USE DomBuf DEF IInv, WithinText
<1>1. buf' = buf /\ bufe' = bufe
  BY DEF buf, bufe
<1>2. \A i \in DOMAIN buf : i < bufc => (Counted(i) <=> Counted(i)')
  BY <1>1 DEF Counted, EndsLine
<1>3. \A i \in DOMAIN buf : (bufc <= i /\ i < bufc') => ~Counted(i)'
  BY <1>1 DEF Counted, EndsLine
<1>4. Rows' = Rows
  BY <1>1, <1>2, <1>3 DEF Rows
<1>5. RowAndColumn'
  BY <1>1, <1>2, <1>3, <1>4 DEF RowAndColumn, Rows
<1>6. NotSplit'
  BY <1>1 DEF NotSplit
<1> QED
  BY <1>5, <1>6

LEMMA Place == ASSUME IInv
               PROVE  bufc \in Nat \ {0} /\ cSep \in Quotes
  BY DEF IInv, WithinText

(* A line end is counted once, whether it is CR, LF or both.                 *)
LEMMA Counts ==
  ASSUME IInv, text' = text, HasOf(bufc, Ends), NewLine,
         comments \subseteq comments',
         \A i \in comments' : i < bufc => i \in comments,
         bufc \in comments' => buf[bufc] = "CR"
  PROVE  RowAndColumn' /\ NotSplit'
<1> USE DomBuf DEF IInv, WithinText
<1>1. buf' = buf /\ bufe' = bufe
  BY DEF buf, bufe
<1>2. \A i \in DOMAIN buf : i < bufc => (Counted(i) <=> Counted(i)')
  BY <1>1 DEF Counted, EndsLine
<1>3. bufc \in DOMAIN buf /\ buf[bufc] \in {"CR", "LF"}
  BY DEF HasOf, Ends, bufe
<1>4. \A i \in DOMAIN buf : i = bufc => Counted(i)' /\ ~(i \in Rows)
  <2>1. EndsLine(bufc)
    BY <1>3 DEF EndsLine, NotSplit
  <2> QED
    BY <1>1, <1>3, <2>1 DEF Counted, EndsLine, Rows
<1>5. \A i \in DOMAIN buf : (bufc < i /\ i < bufc') => ~Counted(i)' /\ buf[i] = "LF"
  BY <1>1, <1>3 DEF Counted, EndsLine, NewLine, PastEnd, Has, bufe
<1>6. bufc' \in {bufc + 1, bufc + 2} /\ bufc' <= bufe /\ line_start' = bufc' /\ curr_row' = curr_row + 1
  BY <1>3 DEF NewLine, PastEnd, Has, bufe
<1>7. Rows' = Rows \cup {bufc}
  BY <1>1, <1>2, <1>3, <1>4, <1>5, <1>6 DEF Rows
<1>8. Cardinality(Rows') = Cardinality(Rows) + 1
  BY <1>3, <1>4, <1>7, RowsFinite, FS_AddElement
<1>9. buf[bufc' - 1] \in Ends
  <2>1. CASE bufc' = bufc + 1
    BY <1>3, <2>1, Place DEF Ends
  <2>2. CASE bufc' = bufc + 2
    <3>1. bufc + 1 \in DOMAIN buf /\ bufc' - 1 = bufc + 1
      BY <1>6, <2>2 DEF bufe
    <3> QED
      BY <1>5, <2>2, <3>1, Place DEF Ends
  <2> QED
    BY <1>6, <2>1, <2>2
<1>10. RowAndColumn'
  BY <1>1, <1>5, <1>6, <1>8, <1>9 DEF RowAndColumn, Rows
<1>11. NotSplit'
  <2>1. CASE bufc' = bufc + 1
    <3>1. ~(buf[bufc] = "CR" /\ Has(bufc + 1, "LF"))
      BY <2>1, Place DEF NewLine, PastEnd
    <3>2. \A i \in DOMAIN buf : i = bufc + 1 => (i - 1 = bufc /\ i < bufe)
      BY Place DEF bufe
    <3> QED
      BY <1>1, <2>1, <3>1, <3>2 DEF NotSplit, Has
  <2>2. CASE bufc' = bufc + 2
    <3>1. bufc + 1 \in DOMAIN buf /\ bufc' - 1 = bufc + 1
      BY <1>6, <2>2 DEF bufe
    <3>2. buf[bufc' - 1] = "LF"
      BY <1>5, <2>2, <3>1, Place
    <3> QED
      BY <1>1, <3>2 DEF NotSplit
  <2> QED
    BY <1>6, <2>1, <2>2
<1> QED
  BY <1>10, <1>11

-----------------------------------------------------------------------------
(* The characters a string puts into tk->buff are characters of the text, or *)
(* those an escape stands for.                                               *)
LEMMA PutChars == ASSUME NEW s \in Seq(Chars), NEW c \in Chars
                  PROVE  Put(s, c) \in Seq(Chars)
  BY BufSizeAssumption DEF Put

LEMMA LocalChars == ASSUME IInv, status = "str"
                    PROVE  Local \in Seq(Chars)
<1> USE DomBuf DEF IInv, WithinText
<1> DEFINE m == Min2(tk.key + BufSize, bufc) - 1
<1>1. tk.key \in 1..bufc /\ bufc <= bufe
  BY DEF Begun
<1>2. m \in Int /\ m <= Len(buf)
  BY <1>1, BufSizeAssumption DEF Min2, bufe
<1>3. \A i \in tk.key..m : buf[i] \in Chars
  BY <1>1, <1>2
<1>4. SubSeq(buf, tk.key, m) \in Seq(Chars)
  BY <1>1, <1>2, <1>3, SubSeqProperties
<1> QED
  BY <1>4 DEF Local

-----------------------------------------------------------------------------
(* Rows and columns, action by action.                                       *)
LEMMA SkipStep ==
  ASSUME IInv, text' = text, comments' = comments, NEW n \in 0..2, Skip(n),
         \A i \in DOMAIN buf : (bufc <= i /\ i < bufc + n) => buf[i] \notin Ends
  PROVE  RowAndColumn' /\ NotSplit' /\ Behind'
<1>1. bufc' = bufc + n /\ line_start' = line_start /\ curr_row' = curr_row /\ bufc \in Nat
  BY DEF Skip, IInv, WithinText
<1>2. Behind'
  BY <1>1, DomBuf DEF IInv, WithinText, Behind
<1>3. \A i \in DOMAIN buf : (bufc <= i /\ i < bufc + n) => buf[i] # "CR" /\ buf[i] # "LF"
  BY DEF Ends
<1> QED
  BY <1>1, <1>2, <1>3, Skipped

(* Where the lexer stays, or passes one character or two of a token.         *)
Stays == Call \/ Invalid \/ End \/ EndOfBlock \/ Unterminated \/ Alpha \/ Num
Ones  == Blank \/ Mark \/ Slash \/ AlphaMore \/ NumMore \/ CloseString \/ Backslash \/ StrMore \/ OpenString
Twos  == Shift \/ BlockComment \/ DoubledQuote \/ EscapeLetter \/ OpenAtEnd
Some  == LineComment \/ EatComment \/ AlphaEnd \/ NumEnd

LEMMA StaysRows == ASSUME IInv, Stays
                   PROVE  RowAndColumn' /\ NotSplit' /\ Behind'
<1>1. text' = text /\ comments' = comments
  BY DEF Stays, Call, Invalid, End, EndOfBlock, Unterminated, Alpha, Num, fixed
<1>2. bufc' = bufc /\ line_start' = line_start /\ curr_row' = curr_row
  BY DEF Stays, Call, Invalid, End, EndOfBlock, Unterminated, Alpha, Num, place
<1>3. Skip(0)
  BY <1>2, Place DEF Skip
<1>4. \A i \in DOMAIN buf : ~(bufc <= i /\ i < bufc + 0)
  BY Place, DomBuf DEF IInv
<1> QED
  BY <1>1, <1>3, <1>4, SkipStep

(* No character of a token, a blank or a comment ends a line.                *)
LEMMA NoEnd == NameChar \cap Ends = {} /\ Quotes \cap Ends = {} /\ DOMAIN Marks \cap Ends = {}
               /\ {"sp", "/", ".", "x", "a", "b", "\\", "*", ";", ">", ":", "h"} \cap Ends = {}
  BY DEF NameChar, Letters, Digits, Quotes, Marks, Ends

LEMMA OnesRows == ASSUME IInv, Ones
                  PROVE  RowAndColumn' /\ NotSplit' /\ Behind'
<1>1. text' = text /\ comments' = comments /\ Skip(1)
  BY DEF Ones, Blank, Mark, Slash, AlphaMore, NumMore, CloseString, Backslash, StrMore, OpenString, fixed
<1>2. buf[bufc] \notin Ends
  <2>1. CASE Blank \/ Mark \/ Slash \/ OpenString
    BY <2>1, NoEnd DEF Blank, Mark, Slash, OpenString, AtNext, HasOf
  <2>2. CASE AlphaMore
    BY <2>2, NoEnd DEF AlphaMore, HasOf
  <2>3. CASE NumMore
    BY <2>3, NoEnd DEF NumMore, NumChar, HasOf, Has, NameChar
  <2>4. CASE CloseString
    BY <2>4, NoEnd, Place DEF CloseString, Has
  <2>5. CASE Backslash
    BY <2>5, NoEnd DEF Backslash, Escape, Has
  <2>6. CASE StrMore
    BY <2>6 DEF StrMore, AtStr, HasOf
  <2> QED
    BY <2>1, <2>2, <2>3, <2>4, <2>5, <2>6 DEF Ones
<1>3. \A i \in DOMAIN buf : (bufc <= i /\ i < bufc + 1) => i = bufc
  BY Place, DomBuf DEF IInv
<1> QED
  BY <1>1, <1>2, <1>3, SkipStep

LEMMA TwosRows == ASSUME IInv, Twos
                  PROVE  RowAndColumn' /\ NotSplit' /\ Behind'
<1>1. text' = text /\ comments' = comments /\ \E n \in {1, 2} : Skip(n)
  BY DEF Twos, Shift, BlockComment, DoubledQuote, EscapeLetter, OpenAtEnd, fixed
<1>2. /\ buf[bufc] \notin Ends
      /\ bufc + 1 \in DOMAIN buf => buf[bufc + 1] \notin Ends
  <2>1. CASE Shift \/ BlockComment
    BY <2>1, NoEnd DEF Shift, BlockComment, AtNext, HasOf, Has
  <2>2. CASE DoubledQuote
    BY <2>2, NoEnd, Place DEF DoubledQuote, Doubled, Has
  <2>3. CASE EscapeLetter
    <3>1. buf[bufc] = "\\" /\ buf[bufc + 1] \in {"r", "n", "t"}
      BY <2>3 DEF EscapeLetter, Escape, Has, HasOf
    <3> QED
      BY <3>1, NoEnd DEF Ends
  <2>4. CASE OpenAtEnd
    <3>1. buf[bufc] \in Quotes /\ bufc + 1 = Len(buf) + 1
      BY <2>4 DEF OpenAtEnd, AtNext, HasOf, bufe
    <3>2. bufc + 1 \notin DOMAIN buf
      BY <3>1, DomBuf, Place DEF IInv
    <3> QED
      BY <3>1, <3>2, NoEnd
  <2> QED
    BY <2>1, <2>2, <2>3, <2>4 DEF Twos
<1>3. \A i \in DOMAIN buf : (bufc <= i /\ i < bufc + 2) => i = bufc \/ i = bufc + 1
  BY Place, DomBuf DEF IInv
<1>4. PICK n \in {1, 2} : Skip(n)
  BY <1>1
<1>5. \A i \in DOMAIN buf : (bufc <= i /\ i < bufc + n) => buf[i] \notin Ends
  BY <1>2, <1>3, Place, DomBuf DEF IInv
<1> QED
  BY <1>1, <1>4, <1>5, SkipStep

LEMMA SomeRows == ASSUME IInv, Some
                  PROVE  RowAndColumn' /\ NotSplit' /\ Behind'
<1>1. text' = text /\ comments' = comments
  BY DEF Some, LineComment, EatComment, AlphaEnd, NumEnd, fixed
<1>2. \/ Skip(0)
      \/ Skip(1) /\ (bufc \in DOMAIN buf => buf[bufc] \notin Ends)
      \/ Skip(2) /\ buf[bufc] \notin Ends /\ buf[bufc + 1] \notin Ends
  <2>1. CASE LineComment
    <3>1. \/ Skip(1) /\ buf[bufc] = ";"
          \/ Skip(2) /\ buf[bufc] = "/" /\ buf[bufc + 1] = "/"
      BY <2>1 DEF LineComment, AtNext, HasOf, Has
    <3> QED
      BY <3>1, NoEnd
  <2>2. CASE EatComment
    <3>1. CASE bufc >= bufe \/ HasOf(bufc, Ends)
      BY <2>2, <3>1 DEF EatComment
    <3>2. CASE ~(bufc >= bufe \/ HasOf(bufc, Ends))
      <4>1. Skip(1)
        BY <2>2, <3>2 DEF EatComment
      <4>2. bufc \in DOMAIN buf => bufc < bufe
        BY DomBuf, Place DEF bufe, IInv
      <4> QED
        BY <3>2, <4>1, <4>2 DEF HasOf
    <3> QED
      BY <3>1, <3>2
  <2>3. CASE AlphaEnd
    BY <2>3, NoEnd DEF AlphaEnd, Has
  <2>4. CASE NumEnd
    BY <2>4, NoEnd DEF NumEnd, Has
  <2> QED
    BY <2>1, <2>2, <2>3, <2>4 DEF Some
<1> DEFINE Harmless(n) == \A i \in DOMAIN buf : (bufc <= i /\ i < bufc + n) => buf[i] \notin Ends
<1>3. \E n \in 0..2 : Skip(n) /\ Harmless(n)
  <2>1. CASE Skip(0)
    <3>1. Harmless(0)
      BY Place, DomBuf DEF Harmless, IInv
    <3> QED
      BY <2>1, <3>1
  <2>2. CASE Skip(1) /\ (bufc \in DOMAIN buf => buf[bufc] \notin Ends)
    <3>1. Harmless(1)
      BY <2>2, Place, DomBuf DEF Harmless, IInv
    <3> QED
      BY <2>2, <3>1
  <2>3. CASE Skip(2) /\ buf[bufc] \notin Ends /\ buf[bufc + 1] \notin Ends
    <3>1. Harmless(2)
      BY <2>3, Place, DomBuf DEF Harmless, IInv
    <3> QED
      BY <2>3, <3>1
  <2> QED
    BY <1>2, <2>1, <2>2, <2>3
<1> QED
  BY <1>1, <1>3, SkipStep DEF Harmless

LEMMA LinesRows == ASSUME IInv, LineEnd \/ StrLineEnd
                   PROVE  RowAndColumn' /\ NotSplit' /\ Behind'
<1>1. text' = text /\ comments' = comments /\ HasOf(bufc, Ends) /\ NewLine
  BY DEF LineEnd, StrLineEnd, AtNext, fixed
<1>2. bufc \notin comments
  BY Place DEF IInv, Behind
<1>3. bufc' > bufc /\ bufc' \in Int
  BY <1>1, Place DEF NewLine, PastEnd
<1>4. Behind'
  BY <1>1, <1>3, Place, DomBuf DEF IInv, WithinText, Behind
<1> QED
  BY <1>1, <1>2, <1>4, Counts

LEMMA BlockRows == ASSUME IInv, EatBlock
                   PROVE  RowAndColumn' /\ NotSplit' /\ Behind'
<1>1. text' = text /\ comments' = comments \cup bufc..(bufc' - 1)
  BY DEF EatBlock, fixed
<1>2. \A i \in comments : i \in Nat /\ i < bufc
  BY DomBuf DEF IInv, WithinText, Behind
<1>3. \A i \in comments' : i < bufc => i \in comments
  BY <1>1, Place
<1>4. CASE Has(bufc, "*") /\ Has(bufc + 1, "/")
  <2>1. Skip(2)
    BY <1>4 DEF EatBlock
  <2>2. bufc' = bufc + 2 /\ line_start' = line_start /\ curr_row' = curr_row
    BY <2>1 DEF Skip
  <2>3. Behind'
    BY <1>1, <1>2, <2>2, Place DEF Behind
  <2>4. \A i \in DOMAIN buf : (bufc <= i /\ i < bufc + 2) => buf[i] # "CR" /\ buf[i] # "LF"
    <3>1. \A i \in DOMAIN buf : (bufc <= i /\ i < bufc + 2) => i = bufc \/ i = bufc + 1
      BY Place, DomBuf DEF IInv
    <3> QED
      BY <1>4, <3>1 DEF Has
  <2> QED
    BY <1>1, <1>3, <2>2, <2>3, <2>4, Skipped
<1>5. CASE ~(Has(bufc, "*") /\ Has(bufc + 1, "/")) /\ Has(bufc, "CR")
  <2>1. NewLine
    BY <1>5 DEF EatBlock
  <2>2. HasOf(bufc, Ends) /\ buf[bufc] = "CR"
    BY <1>5 DEF Has, HasOf, Ends
  <2>3. bufc' > bufc /\ bufc' \in Int
    BY <2>1, Place DEF NewLine, PastEnd
  <2>4. Behind'
    BY <1>1, <1>2, <2>3, Place DEF Behind
  <2> QED
    BY <1>1, <1>3, <2>1, <2>2, <2>4, Counts
<1>6. CASE ~(Has(bufc, "*") /\ Has(bufc + 1, "/")) /\ ~Has(bufc, "CR")
  <2>1. Skip(1) /\ bufc < bufe
    BY <1>6 DEF EatBlock
  <2>2. bufc' = bufc + 1 /\ line_start' = line_start /\ curr_row' = curr_row
    BY <2>1 DEF Skip
  <2>3. Behind' /\ bufc \in comments'
    BY <1>1, <1>2, <2>2, Place DEF Behind
  <2>4. \A i \in DOMAIN buf : (bufc <= i /\ i < bufc + 1) => i = bufc
    BY Place, DomBuf DEF IInv
  <2>5. buf[bufc] # "CR"
    BY <1>6, <2>1 DEF Has
  <2> QED
    BY <1>1, <1>3, <2>2, <2>3, <2>4, <2>5, Skipped
<1> QED
  BY <1>4, <1>5, <1>6

(* Nothing is counted in front of the first character.                       *)
LEMMA StartRows == ASSUME bufc = 1, line_start = 1, curr_row = 0, comments = {}, buf \in Seq(Chars)
                   PROVE  RowAndColumn /\ NotSplit /\ Behind
<1>1. \A i \in DOMAIN buf : i \in Nat /\ i >= 1
  OBVIOUS
<1>2. Rows = {}
  BY <1>1 DEF Rows
<1>3. Cardinality(Rows) = 0
  BY <1>2, FS_EmptySet
<1> QED
  BY <1>1, <1>3 DEF RowAndColumn, Rows, NotSplit, Behind

LEMMA ClearRows == ASSUME IInv, Clear
                   PROVE  RowAndColumn' /\ NotSplit' /\ Behind'
<1>1. bufc' = 1 /\ line_start' = 1 /\ curr_row' = 0 /\ comments' = {}
  BY DEF Clear
<1>2. buf' = buf /\ buf \in Seq(Chars)
  BY DEF Clear, buf, IInv, WithinText
<1>3. \A i \in DOMAIN buf : i \in Nat /\ i >= 1
  BY <1>2
<1>4. Rows' = {}
  BY <1>1, <1>2, <1>3 DEF Rows
<1>5. Cardinality(Rows') = 0
  BY <1>4, FS_EmptySet
<1> QED
  BY <1>1, <1>2, <1>3, <1>5 DEF RowAndColumn, Rows, NotSplit, Behind

-----------------------------------------------------------------------------
(* Types, and where a token began.                                           *)
LEMMA BufFrame == ASSUME text' = text
                  PROVE  buf' = buf /\ bufe' = bufe
  BY DEF buf, bufe

Bounds == /\ bufc \in 1..bufe + 1 /\ line_start \in 1..bufe /\ curr_row \in Nat
          /\ (status # "error" => bufc <= bufe)

LEMMA SkipBounds == ASSUME IInv, text' = text, NEW n \in 0..2, Skip(n), bufc + n <= bufe
                    PROVE  Bounds'
<1>1. bufe \in Nat /\ bufc \in Nat \ {0} /\ line_start \in 1..bufe /\ curr_row \in Nat
  BY DomBuf DEF IInv, WithinText, bufe
<1>2. bufc' = bufc + n /\ line_start' = line_start /\ curr_row' = curr_row
  BY DEF Skip
<1> QED
  BY <1>1, <1>2, BufFrame DEF Bounds

LEMMA NewLineBounds == ASSUME IInv, text' = text, NewLine, bufc < bufe
                       PROVE  Bounds'
<1>1. bufe \in Nat /\ bufc \in Nat \ {0} /\ curr_row \in Nat
  BY DomBuf DEF IInv, WithinText, bufe
<1>2. bufc' \in {bufc + 1, bufc + 2} /\ bufc' <= bufe
  BY <1>1 DEF NewLine, PastEnd, Has
<1>3. line_start' = bufc' /\ curr_row' = curr_row + 1
  BY DEF NewLine
<1> QED
  BY <1>1, <1>2, <1>3, BufFrame DEF Bounds

LEMMA BoundsStep == ASSUME IInv, Next
                    PROVE  Bounds'
<1> USE DomBuf DEF IInv, WithinText
<1>1. bufe \in Nat
  BY DEF bufe
<1>2. CASE Stays
  <2>1. text' = text /\ bufc' = bufc /\ line_start' = line_start /\ curr_row' = curr_row
    BY <1>2 DEF Stays, Call, Invalid, End, EndOfBlock, Unterminated, Alpha, Num, fixed, place
  <2>2. status # "error"
    BY <1>2 DEF Stays, Call, Invalid, End, EndOfBlock, Unterminated, Alpha, Num, AtNext
  <2> QED
    BY <1>1, <2>1, <2>2, BufFrame DEF Bounds
<1>3. CASE Ones
  <2>1. bufc < bufe /\ text' = text /\ Skip(1)
    BY <1>3 DEF Ones, Blank, Mark, Slash, AlphaMore, NumMore, CloseString, Backslash, StrMore,
       OpenString, AtNext, AtStr, HasOf, NumChar, Has, fixed
  <2> QED
    BY <1>1, <2>1, Place, SkipBounds
<1>4. CASE Twos
  <2>1. CASE OpenAtEnd
    BY <1>1, <2>1, BufFrame DEF Bounds, OpenAtEnd, Skip, Fail, fixed
  <2>2. CASE Twos /\ ~OpenAtEnd
    <3>1. bufc + 1 < bufe /\ text' = text /\ Skip(2)
      BY <2>2 DEF Twos, Shift, BlockComment, DoubledQuote, EscapeLetter, AtStr, Doubled, Escape,
         Has, HasOf, fixed
    <3> QED
      BY <1>1, <3>1, Place, SkipBounds
  <2> QED
    BY <1>4, <2>1, <2>2
<1>5. CASE Some
  <2>1. text' = text /\ (Skip(0) \/ (Skip(1) /\ bufc < bufe) \/ (Skip(2) /\ bufc + 1 < bufe))
    <3>1. text' = text
      BY <1>5 DEF Some, LineComment, EatComment, AlphaEnd, NumEnd, fixed
    <3>2. CASE LineComment
      BY <1>1, <3>1, <3>2 DEF LineComment, AtNext, Has, HasOf
    <3>3. CASE EatComment
      <4>1. CASE bufc >= bufe \/ HasOf(bufc, Ends)
        BY <3>1, <3>3, <4>1 DEF EatComment
      <4>2. CASE ~(bufc >= bufe \/ HasOf(bufc, Ends))
        BY <1>1, <3>1, <3>3, <4>2 DEF EatComment
      <4> QED
        BY <4>1, <4>2
    <3>4. CASE AlphaEnd
      BY <3>1, <3>4 DEF AlphaEnd, Has
    <3>5. CASE NumEnd
      BY <3>1, <3>5 DEF NumEnd, Has
    <3> QED
      BY <1>5, <3>1, <3>2, <3>3, <3>4, <3>5 DEF Some
  <2>2. status # "error" /\ status' # "error"
    BY <1>5 DEF Some, LineComment, EatComment, AlphaEnd, NumEnd, AtNext, Loop, Give
  <2> QED
    BY <1>1, <2>1, <2>2, Place, SkipBounds
<1>6. CASE LineEnd \/ StrLineEnd
  <2>1. text' = text /\ bufc < bufe /\ NewLine
    BY <1>6 DEF LineEnd, StrLineEnd, AtNext, HasOf, fixed
  <2> QED
    BY <2>1, NewLineBounds
<1>7. CASE EatBlock
  <2>1. text' = text /\ bufc < bufe
    BY <1>7 DEF EatBlock, fixed
  <2>2. (Skip(2) /\ bufc + 1 < bufe) \/ NewLine \/ Skip(1)
    BY <1>7 DEF EatBlock, Has
  <2> QED
    BY <1>1, <2>1, <2>2, Place, SkipBounds, NewLineBounds
<1>8. CASE Clear
  <2>1. bufe >= 1 /\ text' = text
    BY <1>8 DEF bufe, Clear
  <2> QED
    BY <1>1, <1>8, <2>1, BufFrame DEF Bounds, Clear
<1> QED
  BY <1>2, <1>3, <1>4, <1>5, <1>6, <1>7, <1>8 DEF Next, Stays, Ones, Twos, Some

LEMMA TokenStep == ASSUME IInv, Next
                   PROVE  tk' \in [type : Types, key : 0..bufe, kend : Nat, local : BOOLEAN]'
<1> USE DomBuf DEF IInv, WithinText
<1> DEFINE T == [type : Types, key : 0..bufe, kend : Nat, local : BOOLEAN]
<1>1. bufe \in Nat /\ bufe >= 1
  BY DEF bufe
<1>2. bufe' = bufe
  BY BufFrame DEF Next, Call, Blank, LineEnd, Mark, Slash, Shift, Invalid, End, LineComment, EatComment,
     BlockComment, EatBlock, EndOfBlock, Alpha, AlphaMore, AlphaEnd, Num, NumMore, NumEnd, OpenString,
     OpenAtEnd, CloseString, DoubledQuote, EscapeLetter, Backslash, StrLineEnd, StrMore, Unterminated,
     Clear, fixed
<1>3. {"UNDEF", "KEY", "LABEL", "DOLLAR", "DDOLL", "NUM", "STR", "DIV", "RAR", "LNEND", "END"} \subseteq Types
  BY DEF Types
<1>4. NoToken \in T /\ \A t \in Types : [NoToken EXCEPT !.type = t] \in T
  <2>1. NoToken \in T
    BY <1>1, <1>3 DEF NoToken, T
  <2> QED
    BY <2>1 DEF T
<1>5. CASE tk' = tk
  BY <1>2, <1>5
<1>6. CASE Call \/ OpenAtEnd \/ Unterminated \/ Clear
  BY <1>2, <1>4, <1>6 DEF Call, OpenAtEnd, Unterminated, Clear
<1>7. CASE LineEnd \/ Mark \/ Slash \/ Shift \/ End
  <2>1. PICK t \in Types : tk' = [NoToken EXCEPT !.type = t]
    BY <1>3, <1>7 DEF LineEnd, Mark, Slash, Shift, End, Single, Give, Types, AtNext, HasOf
  <2>2. tk' \in T
    BY <1>4, <2>1
  <2> QED
    BY <1>2, <2>2 DEF T
<1>8. CASE Alpha \/ Num
  <2>1. PICK t \in Types : tk' = [tk EXCEPT !.type = t, !.key = bufc]
    BY <1>3, <1>8 DEF Alpha, Num
  <2>2. bufc < bufe
    BY <1>8 DEF Alpha, Num, AtNext, HasOf
  <2>3. bufc \in 0..bufe
    BY <1>1, <2>2, Place
  <2> QED
    BY <1>2, <2>1, <2>3
<1>9. CASE AlphaEnd
  <2>1. PICK t \in Types : tk' = [tk EXCEPT !.type = t, !.kend = bufc]
    BY <1>3, <1>9 DEF AlphaEnd, Give, Name
  <2> QED
    BY <1>2, <2>1, Place
<1>10. CASE NumEnd
  <2>1. tk' = [tk EXCEPT !.kend = bufc'] /\ bufc' \in Nat
    BY <1>10, Place DEF NumEnd, Give, Skip
  <2> QED
    BY <1>2, <2>1
<1>11. CASE OpenString
  <2>1. bufc' = bufc + 1 /\ bufc + 1 < bufe /\ tk' = [tk EXCEPT !.type = "STR", !.key = bufc']
    BY <1>11 DEF OpenString, Skip
  <2>2. bufc' \in 0..bufe
    BY <1>1, <2>1, Place
  <2> QED
    BY <1>2, <1>3, <2>1, <2>2
<1>12. CASE CloseString
  <2>1. PICK k \in Nat : tk' = [tk EXCEPT !.kend = k]
    <3>1. Len(buff) \in Nat /\ bufc \in Nat
      BY Place
    <3>2. tk' = [tk EXCEPT !.kend = IF tk.local THEN Len(buff) ELSE bufc]
      BY <1>12 DEF CloseString, Give
    <3> QED
      BY <3>1, <3>2
  <2> QED
    BY <1>2, <2>1
<1>13. CASE DoubledQuote \/ EscapeLetter \/ Backslash
  BY <1>2, <1>13 DEF DoubledQuote, EscapeLetter, Backslash, ToLocal
<1>14. CASE Blank \/ Invalid \/ LineComment \/ EatComment \/ BlockComment \/ EatBlock \/ EndOfBlock
            \/ AlphaMore \/ NumMore \/ StrLineEnd \/ StrMore
  <2>1. tk' = tk
    BY <1>14 DEF Blank, Invalid, LineComment, EatComment, BlockComment, EatBlock, EndOfBlock,
       AlphaMore, NumMore, StrLineEnd, StrMore
  <2> QED
    BY <1>5, <2>1
<1> QED
  BY <1>6, <1>7, <1>8, <1>9, <1>10, <1>11, <1>12, <1>13, <1>14 DEF Next

LEMMA StringStep == ASSUME IInv, Next
                    PROVE  buff' \in Seq(Chars) /\ cSep' \in Quotes
<1>1. cSep' \in Quotes
  BY Place DEF Next, Call, Blank, LineEnd, Mark, Slash, Shift, Invalid, End, LineComment, EatComment,
     BlockComment, EatBlock, EndOfBlock, Alpha, AlphaMore, AlphaEnd, Num, NumMore, NumEnd, OpenString,
     OpenAtEnd, CloseString, DoubledQuote, EscapeLetter, Backslash, StrLineEnd, StrMore, Unterminated,
     Clear, string, AtNext, HasOf
<1>2. buff \in Seq(Chars)
  BY DEF IInv, WithinText
<1>3. {"CR", "LF", "sp", "\\"} \cup Quotes \subseteq Chars
  BY DEF Chars, Ends
<1>4. CASE DoubledQuote \/ EscapeLetter \/ Backslash
  <2>1. PICK c \in Chars : ToLocal(c)
    BY <1>3, <1>4, Place DEF DoubledQuote, EscapeLetter, Backslash, HasOf
  <2>2. status = "str"
    BY <1>4 DEF DoubledQuote, EscapeLetter, Backslash, AtStr
  <2> QED
    BY <1>1, <2>1, <2>2, LocalChars, PutChars DEF ToLocal
<1>5. CASE StrLineEnd \/ StrMore
  <2>1. buf[bufc] \in Chars
    BY <1>5, Place, DomBuf DEF StrLineEnd, StrMore, AtStr, bufe, IInv
  <2>2. Put(Put(buff, "CR"), "LF") \in Seq(Chars) /\ Put(buff, buf[bufc]) \in Seq(Chars)
    BY <1>2, <1>3, <2>1, PutChars
  <2> QED
    BY <1>1, <1>2, <1>5, <2>2 DEF StrLineEnd, StrMore, Copy
<1>6. CASE ~(DoubledQuote \/ EscapeLetter \/ Backslash \/ StrLineEnd \/ StrMore)
  <2>1. buff' = buff
    BY <1>6 DEF Next, Call, Blank, LineEnd, Mark, Slash, Shift, Invalid, End, LineComment, EatComment,
     BlockComment, EatBlock, EndOfBlock, Alpha, AlphaMore, AlphaEnd, Num, NumMore, NumEnd, OpenString,
     OpenAtEnd, CloseString, Unterminated, Clear, string
  <2> QED
    BY <1>1, <1>2, <2>1
<1> QED
  BY <1>1, <1>4, <1>5, <1>6

LEMMA BegunStep == ASSUME IInv, Next
                   PROVE  Begun'
<1>1. bufc \in Nat \ {0}
  BY Place
<1>2. CASE Alpha \/ Num \/ OpenString
  <2>1. bufc' \in Nat \ {0}
    <3>1. bufc' = bufc \/ bufc' = bufc + 1
      BY <1>2 DEF Alpha, Num, OpenString, Skip, place
    <3> QED
      BY <1>1, <3>1
  <2>2. tk'.key = bufc'
    <3>1. PICK t : tk' = [tk EXCEPT !.type = t, !.key = bufc']
      BY <1>2 DEF Alpha, Num, OpenString, place
    <3> QED
      BY <3>1 DEF IInv, WithinText
  <2> QED
    BY <2>1, <2>2 DEF Begun
<1>3. CASE AlphaMore \/ NumMore \/ StrMore \/ Backslash \/ DoubledQuote \/ EscapeLetter \/ StrLineEnd
  <2>1. status \in {"alpha", "num", "str"}
    BY <1>3 DEF AlphaMore, NumMore, StrMore, Backslash, DoubledQuote, EscapeLetter, StrLineEnd, AtStr
  <2>2. tk.key \in 1..bufc
    BY <2>1 DEF IInv, Begun
  <2>3. tk' = tk \/ tk' = [tk EXCEPT !.local = TRUE]
    BY <1>3 DEF AlphaMore, NumMore, StrMore, Backslash, DoubledQuote, EscapeLetter, StrLineEnd, ToLocal
  <2>4. tk'.key = tk.key
    BY <2>3 DEF IInv, WithinText
  <2>5. bufc' \in Nat /\ bufc' >= bufc
    BY <1>1, <1>3 DEF AlphaMore, NumMore, StrMore, Backslash, DoubledQuote, EscapeLetter, StrLineEnd,
       Skip, NewLine, PastEnd
  <2> QED
    BY <1>1, <2>2, <2>4, <2>5 DEF Begun
<1>4. CASE ~(Alpha \/ Num \/ OpenString \/ AlphaMore \/ NumMore \/ StrMore \/ Backslash
              \/ DoubledQuote \/ EscapeLetter \/ StrLineEnd)
  <2>1. status' \notin {"alpha", "num", "str"}
    BY <1>4 DEF Next, Call, Blank, LineEnd, Mark, Slash, Shift, Invalid, End, LineComment, EatComment,
       BlockComment, EatBlock, EndOfBlock, AlphaEnd, NumEnd, OpenAtEnd, CloseString, Unterminated, Clear,
       Loop, Give, Single, Fail, AtNext
  <2> QED
    BY <2>1 DEF Begun
<1> QED
  BY <1>2, <1>3, <1>4

LEMMA RestStep ==
  ASSUME IInv, Next
  PROVE  /\ text' = text /\ errs' \in Nat /\ pass' \in 1..MaxPass /\ given' \in Nat
         /\ status' \in {"idle", "next", "comment", "block", "alpha", "num", "str", "end", "error"}
<1> USE DEF IInv, WithinText
<1>1. text' = text
  BY DEF Next, Call, Blank, LineEnd, Mark, Slash, Shift, Invalid, End, LineComment, EatComment,
     BlockComment, EatBlock, EndOfBlock, Alpha, AlphaMore, AlphaEnd, Num, NumMore, NumEnd, OpenString,
     OpenAtEnd, CloseString, DoubledQuote, EscapeLetter, Backslash, StrLineEnd, StrMore, Unterminated,
     Clear, fixed
<1>2. errs' \in Nat
  <2>1. errs' = errs \/ errs' = errs + 1
    BY DEF Next, Call, Blank, LineEnd, Mark, Slash, Shift, Invalid, End, LineComment, EatComment,
     BlockComment, EatBlock, EndOfBlock, Alpha, AlphaMore, AlphaEnd, Num, NumMore, NumEnd, OpenString,
     OpenAtEnd, CloseString, DoubledQuote, EscapeLetter, Backslash, StrLineEnd, StrMore, Unterminated,
     Clear
  <2> QED
    BY <2>1
<1>3. pass' \in 1..MaxPass
  <2>1. pass' = pass \/ (pass < MaxPass /\ pass' = pass + 1)
    BY DEF Next, Call, Blank, LineEnd, Mark, Slash, Shift, Invalid, End, LineComment, EatComment,
     BlockComment, EatBlock, EndOfBlock, Alpha, AlphaMore, AlphaEnd, Num, NumMore, NumEnd, OpenString,
     OpenAtEnd, CloseString, DoubledQuote, EscapeLetter, Backslash, StrLineEnd, StrMore, Unterminated,
     Clear, fixed
  <2> QED
    BY <2>1, MaxPassAssumption
<1>4. given' \in Nat
  <2>1. given' = given \/ given' = given + 1 \/ given' = 0
    BY DEF Next, Call, Blank, LineEnd, Mark, Slash, Shift, Invalid, End, LineComment, EatComment,
     BlockComment, EatBlock, EndOfBlock, Alpha, AlphaMore, AlphaEnd, Num, NumMore, NumEnd, OpenString,
     OpenAtEnd, CloseString, DoubledQuote, EscapeLetter, Backslash, StrLineEnd, StrMore, Unterminated,
     Clear, Loop, Give, Single, Fail
  <2> QED
    BY <2>1
<1>5. status' \in {"idle", "next", "comment", "block", "alpha", "num", "str", "end", "error"}
  <2>1. status' = status \/ status' \in {"idle", "next", "comment", "block", "alpha", "num", "str", "end", "error"}
    BY DEF Next, Call, Blank, LineEnd, Mark, Slash, Shift, Invalid, End, LineComment, EatComment,
     BlockComment, EatBlock, EndOfBlock, Alpha, AlphaMore, AlphaEnd, Num, NumMore, NumEnd, OpenString,
     OpenAtEnd, CloseString, DoubledQuote, EscapeLetter, Backslash, StrLineEnd, StrMore, Unterminated,
     Clear, Loop, Give, Single, Fail
  <2> QED
    BY <2>1
<1> QED
  BY <1>1, <1>2, <1>3, <1>4, <1>5

LEMMA SubInterval == ASSUME NEW a \in Nat \ {0}, NEW b \in Nat, NEW n \in Nat, b <= n + 1
                     PROVE  a..(b - 1) \subseteq 1..n
  OBVIOUS

LEMMA CommentsStep == ASSUME IInv, Next
                      PROVE  comments' \subseteq DOMAIN buf
<1> USE DomBuf DEF IInv, WithinText
<1>1. CASE EatBlock
  <2>1. bufe \in Nat /\ bufe = Len(buf) + 1 /\ bufe' = bufe /\ buf' = buf /\ bufc \in Nat \ {0}
    BY <1>1, BufFrame, Place DEF bufe, EatBlock, fixed
  <2>2. bufc' <= bufe /\ bufc' \in Nat
    <3>1. Bounds' /\ status' # "error"
      BY <1>1, BoundsStep DEF Next, EatBlock, Loop
    <3> QED
      BY <2>1, <3>1 DEF Bounds
  <2>3. bufc..(bufc' - 1) \subseteq 1..Len(buf)
    <3>1. Len(buf) \in Nat /\ bufc' <= Len(buf) + 1
      BY <2>1, <2>2
    <3> HIDE DEF IInv, WithinText
    <3> QED
      BY <2>1, <2>2, <3>1, SubInterval
  <2> QED
    BY <1>1, <2>3 DEF EatBlock
<1>2. CASE ~EatBlock
  BY <1>2 DEF Next, Call, Blank, LineEnd, Mark, Slash, Shift, Invalid, End, LineComment, EatComment,
     BlockComment, EndOfBlock, Alpha, AlphaMore, AlphaEnd, Num, NumMore, NumEnd, OpenString,
     OpenAtEnd, CloseString, DoubledQuote, EscapeLetter, Backslash, StrLineEnd, StrMore, Unterminated, Clear
<1> QED
  BY <1>1, <1>2

LEMMA StepOK == ASSUME IInv, Next
                PROVE  IInv'
<1>1. WithinText'
  <2>1. buf' = buf /\ bufe' = bufe
    BY RestStep, BufFrame
  <2>2. buf \in Seq(Chars)
    BY DEF IInv, WithinText
  <2> QED
    BY <2>1, <2>2, BoundsStep, TokenStep, StringStep, RestStep, CommentsStep DEF WithinText, Bounds
<1>2. RowAndColumn' /\ NotSplit' /\ Behind'
  BY StaysRows, OnesRows, TwosRows, SomeRows, LinesRows, BlockRows, ClearRows
     DEF Next, Stays, Ones, Twos, Some
<1> QED
  BY <1>1, <1>2, BegunStep DEF IInv

LEMMA InitOK == Init => IInv
<1> SUFFICES ASSUME Init PROVE IInv
  OBVIOUS
<1>1. buf \in Seq(Chars)
  BY TextsAssumption DEF Init, buf
<1>2. bufe \in Nat /\ bufe >= 1
  BY <1>1 DEF bufe
<1>3. WithinText
  BY <1>1, <1>2, MaxPassAssumption DEF Init, WithinText, NoToken, Types, Quotes
<1>4. RowAndColumn /\ NotSplit /\ Behind
  BY <1>1, StartRows DEF Init
<1> QED
  BY <1>3, <1>4 DEF IInv, Begun, Init

LEMMA StutterOK == ASSUME IInv, UNCHANGED vars
                   PROVE  IInv'
<1>1. buf' = buf /\ bufe' = bufe
  BY DEF vars, fixed, buf, bufe
<1>2. \A i \in DOMAIN buf : Counted(i)' <=> Counted(i)
  BY <1>1 DEF vars, Counted, EndsLine
<1>3. bufc' = bufc /\ line_start' = line_start /\ curr_row' = curr_row /\ comments' = comments
      /\ tk' = tk /\ status' = status
  BY DEF vars, place
<1>4. Rows' = Rows
  BY <1>1, <1>2, <1>3 DEF Rows
<1>5. RowAndColumn' /\ NotSplit' /\ Behind' /\ Begun'
  BY <1>1, <1>2, <1>3, <1>4 DEF IInv, RowAndColumn, Rows, NotSplit, Behind, Begun
<1>6. WithinText'
  BY <1>1, <1>3 DEF IInv, WithinText, vars, fixed, string
<1> QED
  BY <1>5, <1>6 DEF IInv

-----------------------------------------------------------------------------
(* The lexer never leaves the text, whatever is in it, but for an opening    *)
(* quote that is its last character.                                         *)
THEOREM StaysInside == Spec => []WithinText
<1>1. IInv /\ [Next]_vars => IInv'
  BY StepOK, StutterOK
<1>2. IInv => WithinText
  BY DEF IInv
<1> QED
  BY InitOK, <1>1, <1>2, PTL DEF Spec

(* In every text the row and the column of a message are right, up to the    *)
(* line feeds that block comments hide.                                      *)
THEOREM RowsRight == Spec => []RowAndColumn
<1>1. IInv /\ [Next]_vars => IInv'
  BY StepOK, StutterOK
<1>2. IInv => RowAndColumn
  BY DEF IInv
<1> QED
  BY InitOK, <1>1, <1>2, PTL DEF Spec
-----------------------------------------------------------------------------
(* AsWritten.  First what the syntax says of a plain text x: which part a    *)
(* character has is seen from the characters, if one knows where a lexeme    *)
(* begins.                                                                   *)
LEMMA PlainText ==
  ASSUME NEW x \in Texts, x.plain
  PROVE  /\ x.chars \in Seq(Chars) /\ DOMAIN x.chars = 1..Len(x.chars) /\ Len(x.chars) \in Nat
         /\ \A i \in 1..Len(x.chars) :
              x.chars[i] \in Chars /\ x.parts[i] \in Parts /\ Follow(x, i)
         /\ x.tokens \in Seq(Token) /\ Len(x.tokens) = Nth(x, Len(x.chars))
         /\ 1 \in DOMAIN x.chars => x.parts[1] \in Starts
<1>1. x.chars \in Seq(Chars)
  BY TextsAssumption
<1>2. DOMAIN x.chars = 1..Len(x.chars) /\ Len(x.chars) \in Nat
  BY <1>1
<1>3. \A i \in 1..Len(x.chars) : x.chars[i] \in Chars
  BY <1>1
<1>4. x.parts \in Seq(Parts) /\ Len(x.parts) = Len(x.chars)
  BY SyntaxAssumption
<1>5. \A i \in 1..Len(x.chars) : x.parts[i] \in Parts
  BY <1>2, <1>4
<1>6. \A i \in 1..Len(x.chars) : Follow(x, i)
  BY <1>2, SyntaxAssumption
<1>7. x.tokens \in Seq(Token) /\ Len(x.tokens) = Nth(x, Len(x.chars))
  BY SyntaxAssumption
<1>8. 1 \in DOMAIN x.chars => x.parts[1] \in Starts
  BY <1>2, SyntaxAssumption
<1> QED
  BY <1>1, <1>2, <1>3, <1>5, <1>6, <1>7, <1>8

(* The characters of a part.                                                 *)
LEMMA PartChars ==
  ASSUME NEW x \in Texts, x.plain, NEW i \in 1..Len(x.chars)
  PROVE  Fits(x.parts[i], x.chars[i])
  BY PlainText DEF Follow

(* The part behind a part.                                                   *)
LEMMA PartAfter ==
  ASSUME NEW x \in Texts, x.plain, NEW i \in 1..Len(x.chars), i + 1 \in 1..Len(x.chars)
  PROVE  /\ x.parts[i] \in {"sp", "mark", "div", "rar2", "colon", "h", "lf", "close", "end2"} =>
              x.parts[i+1] \in Starts
         /\ x.parts[i] = "eol" => x.parts[i+1] \in Starts \cup {"lf"}
         /\ x.parts[i] \in {"first", "more"} => x.parts[i+1] \in Starts \cup {"more", "colon"}
         /\ x.parts[i] \in {"digit", "digits"} => x.parts[i+1] \in Starts \cup {"digits", "h"}
         /\ x.parts[i] \in {"open", "char", "twin2", "esc2", "lone"} => x.parts[i+1] \in Strokes
         /\ x.parts[i] \in {"semi", "slash2", "remark"} => x.parts[i+1] \in {"remark", "eol"}
         /\ x.parts[i] \in {"blk2", "inner"} => x.parts[i+1] \in {"inner", "end"}
         /\ x.parts[i] = "rar" => x.parts[i+1] = "rar2"
         /\ x.parts[i] = "twin" => x.parts[i+1] = "twin2"
         /\ x.parts[i] = "esc" => x.parts[i+1] = "esc2"
         /\ x.parts[i] = "slash" => x.parts[i+1] = "slash2"
         /\ x.parts[i] = "blk" => x.parts[i+1] = "blk2"
         /\ x.parts[i] = "end" => x.parts[i+1] = "end2"
<1>1. x.parts[i+1] \in After[x.parts[i]] /\ x.parts[i] \in Parts
  <2>1. i # Len(x.chars)
    BY PlainText
  <2> QED
    BY <2>1, PlainText DEF Follow
<1> DEFINE p == x.parts[i]
           q == x.parts[i+1]
<1> HIDE DEF p, q
<1>2. p \in Parts /\ q \in After[p]
  BY <1>1 DEF p, q
<1>3. /\ p \in {"sp", "mark", "div", "rar2", "colon", "h", "lf", "close", "end2"} => q \in Starts
      /\ p = "eol" => q \in Starts \cup {"lf"}
      /\ p \in {"first", "more"} => q \in Starts \cup {"more", "colon"}
      /\ p \in {"digit", "digits"} => q \in Starts \cup {"digits", "h"}
      /\ p \in {"open", "char", "twin2", "esc2", "lone"} => q \in Strokes
      /\ p \in {"semi", "slash2", "remark"} => q \in {"remark", "eol"}
      /\ p \in {"blk2", "inner"} => q \in {"inner", "end"}
      /\ p = "rar" => q = "rar2"
      /\ p = "twin" => q = "twin2"
      /\ p = "esc" => q = "esc2"
      /\ p = "slash" => q = "slash2"
      /\ p = "blk" => q = "blk2"
      /\ p = "end" => q = "end2"
  BY <1>2 DEF After
<1> QED
  BY <1>3 DEF p, q

(* A text does not end within a lexeme.                                      *)
LEMMA LastPart ==
  ASSUME NEW x \in Texts, x.plain, NEW i \in 1..Len(x.chars),
         x.parts[i] \in {"rar", "open", "char", "twin", "twin2", "esc", "esc2", "lone",
                         "slash", "blk", "blk2", "inner", "end"}
  PROVE  i + 1 \in 1..Len(x.chars)
<1>1. i # Len(x.chars)
  BY PlainText DEF Follow, Lasts
<1> QED
  BY <1>1, PlainText
(* Counting parts.                                                           *)
Count(f, P, a, b) == Cardinality({j \in a..b : f[j] \in P})

LEMMA Counting ==
  ASSUME NEW f, NEW P, NEW a \in Int, NEW b \in Nat
  PROVE  /\ Count(f, P, a, b) \in Nat
         /\ b < a => Count(f, P, a, b) = 0
         /\ b >= a => Count(f, P, a, b) = Count(f, P, a, b - 1) + (IF f[b] \in P THEN 1 ELSE 0)
<1> DEFINE S(n) == {j \in a..n : f[j] \in P}
<1>1. ASSUME NEW n \in Int PROVE IsFiniteSet(S(n)) /\ Cardinality(S(n)) \in Nat
  <2>1. IsFiniteSet(a..n)
    BY FS_Interval
  <2>2. S(n) \subseteq a..n
    OBVIOUS
  <2>3. IsFiniteSet(S(n))
    BY <2>1, <2>2, FS_Subset
  <2> QED
    BY <2>3, FS_CardinalityType
<1>2. b < a => S(b) = {}
  OBVIOUS
<1>3. b >= a => b - 1 \in Int /\ S(b) = IF f[b] \in P THEN S(b-1) \cup {b} ELSE S(b-1)
  OBVIOUS
<1>4. b \notin S(b-1)
  OBVIOUS
<1> HIDE DEF S
<1>5. b < a => Cardinality(S(b)) = 0
  BY <1>2, FS_EmptySet
<1>6. b >= a => Cardinality(S(b)) = Cardinality(S(b-1)) + (IF f[b] \in P THEN 1 ELSE 0)
  <2> SUFFICES ASSUME b >= a PROVE Cardinality(S(b)) = Cardinality(S(b-1)) + (IF f[b] \in P THEN 1 ELSE 0)
    OBVIOUS
  <2>1. IsFiniteSet(S(b-1)) /\ Cardinality(S(b-1)) \in Nat
    BY <1>1
  <2>2. CASE f[b] \in P
    BY <1>3, <1>4, <2>1, <2>2, FS_AddElement
  <2>3. CASE f[b] \notin P
    BY <1>3, <2>1, <2>3
  <2> QED
    BY <2>2, <2>3
<1>7. Cardinality(S(b)) \in Nat
  BY <1>1
<1> QED
  BY <1>5, <1>6, <1>7 DEF S, Count

(* The number of a token.                                                    *)
LEMMA NthNext ==
  ASSUME NEW x \in Texts, x.plain, NEW i \in 0..Len(x.chars)
  PROVE  /\ Nth(x, i) \in Nat /\ Nth(x, 0) = 0
         /\ i > 0 => Nth(x, i) = Nth(x, i - 1) + (IF x.parts[i] \in Heads THEN 1 ELSE 0)
<1>1. i \in Nat
  BY PlainText
<1>2. \A n : Nth(x, n) = Count(x.parts, Heads, 1, n)
  BY Zenon DEF Nth, Count
<1> QED
  BY <1>1, <1>2, Counting

(* The number of the token stays behind a part that is no head.              *)
LEMMA NthStays ==
  ASSUME NEW x \in Texts, x.plain, NEW i \in 1..Len(x.chars), x.parts[i] \notin Heads
  PROVE  Nth(x, i) = Nth(x, i - 1) /\ Nth(x, i) \in Nat
<1>1. i \in 0..Len(x.chars) /\ i > 0 /\ i - 1 \in 0..Len(x.chars)
  BY PlainText
<1>2. Nth(x, i - 1) \in Nat
  BY <1>1, NthNext
<1>3. Nth(x, i) = Nth(x, i - 1) + 0
  BY <1>1, NthNext
<1> QED
  BY <1>2, <1>3

LEMMA NthRun ==
  ASSUME NEW x \in Texts, x.plain, NEW a \in 0..Len(x.chars), NEW b \in a..Len(x.chars), NEW P,
         Run(x, a + 1, b, P), P \cap Heads = {}
  PROVE  Nth(x, b) = Nth(x, a)
<1>1. {j \in 1..b : x.parts[j] \in Heads} = {j \in 1..a : x.parts[j] \in Heads}
  BY PlainText DEF Run
<1> QED
  BY <1>1 DEF Nth

(* No token of the text has a number behind the last one.                    *)
LEMMA NthBound ==
  ASSUME NEW x \in Texts, x.plain, NEW i \in 0..Len(x.chars)
  PROVE  /\ Nth(x, i) <= Len(x.tokens)
         /\ Nth(x, i) > 0 => x.tokens[Nth(x, i)] \in Token
<1>1. IsFiniteSet({j \in 1..Len(x.chars) : x.parts[j] \in Heads})
  <2>1. IsFiniteSet(1..Len(x.chars))
    BY PlainText, FS_Interval
  <2> QED
    BY <2>1, FS_Subset
<1>2. {j \in 1..i : x.parts[j] \in Heads} \subseteq {j \in 1..Len(x.chars) : x.parts[j] \in Heads}
  BY PlainText
<1>3. Nth(x, i) <= Nth(x, Len(x.chars))
  BY <1>1, <1>2, FS_Subset DEF Nth
<1>4. Nth(x, i) <= Len(x.tokens)
  BY <1>3, PlainText
<1>5. Nth(x, i) \in Nat
  BY NthNext
<1>6. x.tokens \in Seq(Token) /\ Len(x.tokens) \in Nat
  BY PlainText
<1> QED
  BY <1>4, <1>5, <1>6

LEMMA SaidNext ==
  ASSUME NEW x, NEW a \in Nat, NEW b \in Nat
  PROVE  /\ SaidTo(x, a, b) \in Nat
         /\ b <= a => SaidTo(x, a, b) = 0
         /\ b > a => SaidTo(x, a, b) = SaidTo(x, a, b-1) + (IF x.parts[b] \in Saying THEN 1 ELSE 0)
<1> DEFINE lo == a + 1
<1>1. lo \in Int /\ (b <= a <=> b < lo) /\ (b > a <=> b >= lo)
  OBVIOUS
<1>2. \A n : SaidTo(x, a, n) = Count(x.parts, Saying, lo, n)
  BY Zenon DEF SaidTo, Count
<1> HIDE DEF lo
<1> QED
  BY <1>1, <1>2, Counting

-----------------------------------------------------------------------------
(* The part where a lexeme begins, from the character found there.           *)
LEMMA StartPart ==
  ASSUME NEW x \in Texts, x.plain, NEW i \in 1..Len(x.chars), x.parts[i] \in Starts
  PROVE  /\ x.chars[i] \notin {"bad", "\\"}
         /\ x.chars[i] = "sp" => x.parts[i] = "sp"
         /\ x.chars[i] \in Ends => x.parts[i] = "eol"
         /\ x.chars[i] \in DOMAIN Marks => x.parts[i] = "mark"
         /\ x.chars[i] \in Letters \cup {"_", "$"} => x.parts[i] = "first"
         /\ x.chars[i] \in Digits => x.parts[i] = "digit"
         /\ x.chars[i] \in Quotes => x.parts[i] = "open"
         /\ x.chars[i] = ";" => x.parts[i] = "semi"
         /\ x.chars[i] = ">" => x.parts[i] = "rar"
         /\ x.chars[i] = "/" => x.parts[i] \in {"div", "slash", "blk"}
<1>1. Fits(x.parts[i], x.chars[i])
  BY PartChars
<1> QED
  BY <1>1 DEF Fits, Starts, Ends, Letters, Digits, Quotes, Marks

LEMMA SlashPart ==
  ASSUME NEW x \in Texts, x.plain, NEW i \in 1..Len(x.chars), x.parts[i] \in Starts
  PROVE  /\ x.parts[i] = "div" => ~At(x, i+1, {"/", "*"})
         /\ x.parts[i] = "slash" => Is(x, i+1, {"slash2"}) /\ x.chars[i+1] = "/"
         /\ x.parts[i] = "blk" => Is(x, i+1, {"blk2"}) /\ x.chars[i+1] = "*"
         /\ x.parts[i] = "rar" => Is(x, i+1, {"rar2"}) /\ x.chars[i+1] = ">"
<1>1. x.parts[i] = "div" => ~At(x, i+1, {"/", "*"})
  BY PlainText DEF Follow, Parted, Is
<1>2. x.parts[i] \in {"slash", "blk", "rar"} => i + 1 \in 1..Len(x.chars)
  BY LastPart
<1>3. i + 1 \in 1..Len(x.chars) => Fits(x.parts[i+1], x.chars[i+1])
  BY PartChars
<1>4. /\ x.parts[i] = "slash" => x.parts[i+1] = "slash2"
      /\ x.parts[i] = "blk" => x.parts[i+1] = "blk2"
      /\ x.parts[i] = "rar" => x.parts[i+1] = "rar2"
  BY <1>2, PartAfter
<1>5. \A c : (Fits("slash2", c) => c = "/") /\ (Fits("blk2", c) => c = "*") /\ (Fits("rar2", c) => c = ">")
  BY DEF Fits
<1> QED
  BY <1>1, <1>2, <1>3, <1>4, <1>5, PlainText DEF Is

(* Behind a lexeme that is over the next one begins, or the text ends.       *)
Opens(x, i) == i = Len(x.chars) + 1 \/ Is(x, i, Starts)

LEMMA Over ==
  ASSUME NEW x \in Texts, x.plain, NEW i \in 1..Len(x.chars),
         x.parts[i] \in {"sp", "mark", "div", "rar2", "colon", "h", "lf", "close", "end2"}
  PROVE  Opens(x, i + 1)
<1>1. CASE i + 1 \in 1..Len(x.chars)
  BY <1>1, PartAfter, PlainText DEF Opens, Is
<1>2. CASE i = Len(x.chars)
  BY <1>2 DEF Opens
<1> QED
  BY <1>1, <1>2, PlainText
-----------------------------------------------------------------------------
(* AsWritten: where the lexer stands in a plain text, and what it has of the *)
(* token it is reading.                                                      *)
Between  == status \in {"idle", "next", "end"} =>
              /\ Opens(text, bufc)
              /\ given = Nth(text, bufc - 1)
AtTheEnd == status = "end" => bufc = bufe
InRemark == status = "comment" =>
              /\ bufc = bufe \/ Is(text, bufc, {"remark", "eol"})
              /\ given = Nth(text, bufc - 1)
InBlock  == status = "block" =>
              Is(text, bufc, {"inner", "end"}) /\ given = Nth(text, bufc - 1)

Reads(type, a, part, more) ==
  /\ tk.type = type /\ ~tk.local
  /\ Is(text, a, {part}) /\ Run(text, a + 1, bufc - 1, more)
  /\ given + 1 = Nth(text, a)
InName == status = "alpha" => Reads("KEY", tk.key, "first", {"more"})
InNum  == status = "num"   => Reads("NUM", tk.key, "digit", {"digits"})

(* The string that was opened at a is read up to i: what it has said is in   *)
(* the text, or s has it as far as there is room.                            *)
Stood(x, a, n)   == \A j \in 1..n : TokenAt(x, a).says[j] = x.chars[a + j]
Kept(x, a, n, s) == /\ s \in Seq(Chars) /\ Len(s) <= n /\ (Len(s) = n \/ Len(s) >= BufSize - 1)
                    /\ \A j \in 1..Len(s) : s[j] = TokenAt(x, a).says[j]
Heard(x, a, i, local, s) ==
  /\ Is(x, a, {"open"}) /\ a < i /\ Run(x, a + 1, i - 1, Inside) /\ Is(x, i, Strokes)
  /\ local <=> \E j \in (a + 1)..(i - 1) : x.parts[j] \in Escapes
  /\ local  => Kept(x, a, SaidTo(x, a, i - 1), s)
  /\ ~local => SaidTo(x, a, i - 1) = i - 1 - a /\ Stood(x, a, i - 1 - a)
Hears(a) == /\ tk.type = "STR" /\ cSep = buf[a] /\ given + 1 = Nth(text, a)
            /\ Heard(text, a, bufc, tk.local, buff)
InStr    == status = "str" => Hears(tk.key - 1)

(* The token just read is the one its author wrote.                          *)
Rightly ==
  status = "idle" /\ given > 0 =>
    LET meant == text.tokens[given] IN
      /\ tk.type = meant.type
      /\ tk.type \in {"KEY", "LABEL", "NUM"} => Said = meant.says
      /\ tk.type = "STR" => /\ Said = Cut(meant.says)
                            /\ tk.local <=> meant.escaped
                            /\ Len(Said) >= Min2(Len(meant.says), BufSize - 1)

LexInv ==
  /\ text \in Texts
  /\ text.plain =>
       /\ status # "error" /\ errs = 0
       /\ Between /\ AtTheEnd /\ InRemark /\ InBlock /\ InName /\ InNum /\ InStr /\ Rightly

LEMMA Standing ==
  ASSUME IInv, LexInv
  PROVE  /\ text \in Texts /\ buf = text.chars /\ bufe = Len(text.chars) + 1
         /\ Len(text.chars) \in Nat /\ DOMAIN text.chars = 1..Len(text.chars) /\ DOMAIN buf = DOMAIN text.chars
         /\ bufc \in Nat \ {0} /\ given \in Nat /\ (status # "error" => bufc <= Len(text.chars) + 1)
<1>1. text \in Texts /\ text.chars \in Seq(Chars)
  BY TextsAssumption DEF LexInv
<1> QED
  BY <1>1 DEF IInv, WithinText, buf, bufe

(* Arriving between two lexemes, in a comment, in a name, ...                *)
LEMMA ArriveBetween ==
  ASSUME LexInv, text' = text, errs' = 0, status' \in {"idle", "next", "end"},
         Opens(text, bufc'), given' = Nth(text, bufc' - 1),
         status' = "end" => bufc' = bufe, Rightly'
  PROVE  LexInv'
<1>1. bufe' = bufe
  BY DEF bufe, buf
<1>2. Between' /\ AtTheEnd'
  BY <1>1 DEF Between, AtTheEnd
<1>3. InRemark' /\ InBlock' /\ InName' /\ InNum' /\ InStr'
  BY DEF InRemark, InBlock, InName, InNum, InStr
<1> QED
  BY <1>2, <1>3 DEF LexInv

LEMMA ArriveRemark ==
  ASSUME LexInv, text' = text, errs' = 0, status' = "comment",
         bufc' = bufe \/ Is(text, bufc', {"remark", "eol"}), given' = Nth(text, bufc' - 1)
  PROVE  LexInv'
<1>1. bufe' = bufe
  BY DEF bufe, buf
<1>2. InRemark'
  BY <1>1 DEF InRemark
<1>3. Between' /\ AtTheEnd' /\ InBlock' /\ InName' /\ InNum' /\ InStr' /\ Rightly'
  BY DEF Between, AtTheEnd, InBlock, InName, InNum, InStr, Rightly
<1> QED
  BY <1>2, <1>3 DEF LexInv

LEMMA ArriveBlock ==
  ASSUME LexInv, text' = text, errs' = 0, status' = "block",
         Is(text, bufc', {"inner", "end"}), given' = Nth(text, bufc' - 1)
  PROVE  LexInv'
<1>1. InBlock'
  BY DEF InBlock
<1>2. Between' /\ AtTheEnd' /\ InRemark' /\ InName' /\ InNum' /\ InStr' /\ Rightly'
  BY DEF Between, AtTheEnd, InRemark, InName, InNum, InStr, Rightly
<1> QED
  BY <1>1, <1>2 DEF LexInv

LEMMA ArriveName ==
  ASSUME LexInv, text' = text, errs' = 0, status' = "alpha", NEW a, a = tk'.key,
         tk'.type = "KEY", ~tk'.local, Is(text, a, {"first"}), Run(text, a + 1, bufc' - 1, {"more"}),
         given' + 1 = Nth(text, a)
  PROVE  LexInv'
<1>1. InName'
  BY DEF InName, Reads
<1>2. Between' /\ AtTheEnd' /\ InRemark' /\ InBlock' /\ InNum' /\ InStr' /\ Rightly'
  BY DEF Between, AtTheEnd, InRemark, InBlock, InNum, InStr, Rightly
<1> QED
  BY <1>1, <1>2 DEF LexInv

LEMMA ArriveNum ==
  ASSUME LexInv, text' = text, errs' = 0, status' = "num", NEW a, a = tk'.key,
         tk'.type = "NUM", ~tk'.local, Is(text, a, {"digit"}), Run(text, a + 1, bufc' - 1, {"digits"}),
         given' + 1 = Nth(text, a)
  PROVE  LexInv'
<1>1. InNum'
  BY DEF InNum, Reads
<1>2. Between' /\ AtTheEnd' /\ InRemark' /\ InBlock' /\ InName' /\ InStr' /\ Rightly'
  BY DEF Between, AtTheEnd, InRemark, InBlock, InName, InStr, Rightly
<1> QED
  BY <1>1, <1>2 DEF LexInv

LEMMA ArriveStr ==
  ASSUME LexInv, text' = text, errs' = 0, status' = "str",
         NEW a, a = tk'.key - 1, Hears(a)'
  PROVE  LexInv'
<1>1. InStr'
  BY DEF InStr
<1>2. Between' /\ AtTheEnd' /\ InRemark' /\ InBlock' /\ InName' /\ InNum' /\ Rightly'
  BY DEF Between, AtTheEnd, InRemark, InBlock, InName, InNum, Rightly
<1> QED
  BY <1>1, <1>2 DEF LexInv

LEMMA ArriveNext ==
  ASSUME LexInv, text' = text, errs' = 0, status' = "next",
         Opens(text, bufc'), given' = Nth(text, bufc' - 1)
  PROVE  LexInv'
<1>1. Rightly'
  BY DEF Rightly
<1> QED
  BY <1>1, ArriveBetween

(* The step of blexer_next that finds the character of C that begins a       *)
(* lexeme.                                                                   *)
LEMMA Found ==
  ASSUME IInv, LexInv, text.plain, NEW C, AtNext(C)
  PROVE  /\ bufc \in 1..Len(text.chars) /\ text.chars[bufc] \in C /\ text.parts[bufc] \in Starts
         /\ status = "next" /\ given = Nth(text, bufc - 1) /\ errs = 0
         /\ Nth(text, bufc) = given + (IF text.parts[bufc] \in Heads THEN 1 ELSE 0)
<1>1. bufc \in 1..Len(text.chars) /\ text.chars[bufc] \in C /\ status = "next"
  BY Standing DEF AtNext, HasOf, buf, bufe
<1>2. Opens(text, bufc) /\ given = Nth(text, bufc - 1) /\ errs = 0
  BY <1>1 DEF LexInv, Between
<1>3. text.parts[bufc] \in Starts
  BY <1>1, <1>2, Standing DEF Opens, Is
<1>4. bufc \in 0..Len(text.chars) /\ bufc > 0
  BY <1>1, Standing
<1>5. Nth(text, bufc) = Nth(text, bufc - 1) + (IF text.parts[bufc] \in Heads THEN 1 ELSE 0)
  BY <1>4, NthNext, Standing
<1> QED
  BY <1>1, <1>2, <1>3, <1>5

-----------------------------------------------------------------------------
(* How comments, names and numbers go on and end.                            *)
LEMMA RemarkGoes ==
  ASSUME NEW x \in Texts, x.plain, NEW i \in 1..Len(x.chars),
         x.parts[i] \in {"semi", "slash2", "remark"}
  PROVE  /\ i = Len(x.chars) \/ Is(x, i + 1, {"remark", "eol"})
         /\ Nth(x, i) = Nth(x, i - 1)
<1>1. x.parts[i] \notin Heads
  BY DEF Heads
<1>2. i = Len(x.chars) \/ i + 1 \in 1..Len(x.chars)
  BY PlainText
<1>3. i + 1 \in 1..Len(x.chars) => x.parts[i + 1] \in {"remark", "eol"}
  BY PartAfter
<1> QED
  BY <1>1, <1>2, <1>3, NthStays, PlainText DEF Is

LEMMA BlockGoes ==
  ASSUME NEW x \in Texts, x.plain, NEW i \in 1..Len(x.chars), x.parts[i] \in {"blk2", "inner"}
  PROVE  Is(x, i + 1, {"inner", "end"}) /\ Nth(x, i) = Nth(x, i - 1)
<1>1. x.parts[i] \notin Heads
  BY DEF Heads
<1>2. i + 1 \in 1..Len(x.chars)
  BY LastPart
<1> QED
  BY <1>1, <1>2, PartAfter, NthStays, PlainText DEF Is

LEMMA BlockEnds ==
  ASSUME NEW x \in Texts, x.plain, NEW i, Is(x, i, {"inner", "end"})
  PROVE  /\ i \in 1..Len(x.chars)
         /\ x.parts[i] = "end" => /\ x.chars[i] = "*" /\ At(x, i + 1, {"/"}) /\ Opens(x, i + 2)
                                  /\ Nth(x, i + 1) = Nth(x, i - 1)
         /\ x.parts[i] = "inner" => ~(x.chars[i] = "*" /\ At(x, i + 1, {"/"}))
<1>1. i \in 1..Len(x.chars) /\ x.parts[i] \in {"inner", "end"}
  BY PlainText DEF Is
<1>2. ASSUME x.parts[i] = "end"
      PROVE  /\ x.chars[i] = "*" /\ At(x, i + 1, {"/"}) /\ Opens(x, i + 2)
             /\ Nth(x, i + 1) = Nth(x, i - 1)
  <2>1. i + 1 \in 1..Len(x.chars) /\ x.parts[i + 1] = "end2"
    BY <1>1, <1>2, LastPart, PartAfter
  <2>2. x.chars[i] = "*" /\ x.chars[i + 1] = "/"
    <3>1. Fits(x.parts[i], x.chars[i]) /\ Fits(x.parts[i + 1], x.chars[i + 1])
      BY <1>1, <2>1, PartChars
    <3> QED
      BY <1>2, <2>1, <3>1 DEF Fits
  <2>3. Opens(x, i + 2)
    <3>1. Opens(x, (i + 1) + 1)
      BY <2>1, Over
    <3>2. (i + 1) + 1 = i + 2
      BY <1>1
    <3> QED
      BY <3>1, <3>2
  <2>4. "end" \notin Heads /\ "end2" \notin Heads
    BY DEF Heads
  <2>5. Nth(x, i) = Nth(x, i - 1)
    BY <1>1, <1>2, <2>4, NthStays
  <2>6. Nth(x, i + 1) = Nth(x, (i + 1) - 1)
    BY <2>1, <2>4, NthStays
  <2>7. (i + 1) - 1 = i
    BY <1>1
  <2> QED
    BY <2>1, <2>2, <2>3, <2>5, <2>6, <2>7, PlainText DEF At
<1>3. x.parts[i] = "inner" => ~(x.chars[i] = "*" /\ At(x, i + 1, {"/"}))
  BY <1>1, PlainText DEF Follow, Parted, Is
<1> QED
  BY <1>1, <1>2, <1>3

(* A name that began at a and is read up to i.                               *)
LEMMA NameGoes ==
  ASSUME NEW x \in Texts, x.plain, NEW a, Is(x, a, {"first"}), NEW i \in a..(Len(x.chars) + 1),
         Run(x, a + 1, i - 1, {"more"})
  PROVE  /\ a \in 1..Len(x.chars) /\ x.chars[a] \in NameChar
         /\ At(x, i, NameChar) => Run(x, a + 1, i, {"more"})
         /\ ~At(x, i, NameChar) => /\ i > a /\ ~Is(x, i, {"more"})
                                   /\ At(x, i, {":"}) <=> Is(x, i, {"colon"})
                                   /\ ~At(x, i, {":"}) => Opens(x, i)
<1>1. a \in 1..Len(x.chars) /\ x.parts[a] = "first" /\ i \in Nat
  BY PlainText DEF Is
<1>2. x.chars[a] \in NameChar
  <2>1. Fits(x.parts[a], x.chars[a])
    BY <1>1, PartChars
  <2> QED
    BY <1>1, <2>1 DEF Fits, NameChar
<1>3. ASSUME i > a
      PROVE  i - 1 \in 1..Len(x.chars) /\ x.parts[i - 1] \in {"first", "more"} /\ (i - 1) + 1 = i
  BY <1>1, <1>3, PlainText DEF Run
<1>4. i > a => (~Is(x, i, {"more", "colon"}) => ~At(x, i, NameChar \cup {":"}))
  <2> SUFFICES ASSUME i > a, ~Is(x, i, {"more", "colon"}) PROVE ~At(x, i, NameChar \cup {":"})
    OBVIOUS
  <2>1. Parted(x, i - 1)
    BY <1>3, PlainText DEF Follow
  <2>2. Is(x, i - 1, {"first", "more"})
    BY <1>3, PlainText DEF Is
  <2> QED
    BY <1>3, <2>1, <2>2 DEF Parted
<1>5. /\ Is(x, i, {"more"}) => At(x, i, NameChar)
      /\ Is(x, i, {"colon"}) => At(x, i, {":"}) /\ ~At(x, i, NameChar)
  <2>1. i \in DOMAIN x.chars => Fits(x.parts[i], x.chars[i])
    BY PartChars, PlainText
  <2>2. ":" \notin NameChar
    BY DEF NameChar, Letters, Digits
  <2> QED
    BY <2>1, <2>2 DEF Is, At, Fits
<1>6. ASSUME At(x, i, NameChar) PROVE Run(x, a + 1, i, {"more"})
  <2>1. CASE i = a
    BY <1>1, <2>1 DEF Run
  <2>2. CASE i > a
    <3>1. x.parts[i] = "more"
      BY <1>4, <1>5, <1>6, <2>2 DEF Is, At
    <3> QED
      BY <1>1, <2>2, <3>1 DEF Run
  <2> QED
    BY <1>1, <2>1, <2>2
<1>7. ASSUME ~At(x, i, NameChar)
      PROVE  /\ i > a /\ ~Is(x, i, {"more"})
             /\ At(x, i, {":"}) <=> Is(x, i, {"colon"})
             /\ ~At(x, i, {":"}) => Opens(x, i)
  <2>1. i > a
    BY <1>1, <1>2, <1>7, PlainText DEF At
  <2>2. ~Is(x, i, {"more"})
    BY <1>5, <1>7
  <2>3. At(x, i, {":"}) <=> Is(x, i, {"colon"})
    BY <1>4, <1>5, <2>1, <2>2 DEF At, Is
  <2>4. ASSUME ~At(x, i, {":"}) PROVE Opens(x, i)
    <3>1. CASE i = Len(x.chars) + 1
      BY <3>1 DEF Opens
    <3>2. CASE i \in 1..Len(x.chars)
      <4>1. x.parts[i] \in Starts \cup {"more", "colon"}
        BY <1>3, <2>1, <3>2, PartAfter
      <4> QED
        BY <2>2, <2>3, <2>4, <3>2, <4>1, PlainText DEF Opens, Is
    <3>3. i = Len(x.chars) + 1 \/ i \in 1..Len(x.chars)
      <4>1. Len(x.chars) \in Nat
        BY PlainText
      <4> QED
        BY <1>1, <4>1
    <3> QED
      BY <3>1, <3>2, <3>3
  <2> QED
    BY <2>1, <2>2, <2>3, <2>4
<1> QED
  BY <1>1, <1>2, <1>6, <1>7

(* The name ends in front of i: so says its author.                          *)
LEMMA NameSays ==
  ASSUME NEW x \in Texts, x.plain, NEW a, Is(x, a, {"first"}), NEW i \in a..(Len(x.chars) + 1),
         Run(x, a + 1, i - 1, {"more"}), ~At(x, i, NameChar)
  PROVE  /\ TokenAt(x, a).says = SubSeq(x.chars, a, i - 1)
         /\ At(x, i, {":"}) => /\ TokenAt(x, a).type = "LABEL" /\ Opens(x, i + 1)
                               /\ Nth(x, i) = Nth(x, a)
         /\ ~At(x, i, {":"}) =>
              /\ Opens(x, i) /\ Nth(x, i - 1) = Nth(x, a)
              /\ TokenAt(x, a).type = IF x.chars[a] = "$" /\ i = a + 1 THEN "DOLLAR"
                                      ELSE IF x.chars[a] = "$" /\ i = a + 2 /\ x.chars[a + 1] = "$"
                                      THEN "DDOLL" ELSE "KEY"
<1>1. /\ a \in 1..Len(x.chars) /\ x.parts[a] = "first" /\ i > a /\ ~Is(x, i, {"more"})
      /\ At(x, i, {":"}) <=> Is(x, i, {"colon"})
      /\ ~At(x, i, {":"}) => Opens(x, i)
  BY NameGoes, PlainText DEF Is
<1> DEFINE b == i - 1
<1>2. b \in a..Len(x.chars) /\ b + 1 = i /\ i \in Nat /\ a \in Nat
  <2>1. Len(x.chars) \in Nat
    BY PlainText
  <2> QED
    BY <1>1, <2>1
<1> HIDE DEF b
<1>3. Run(x, a + 1, b, {"more"}) /\ ~Is(x, b + 1, {"more"})
  BY <1>1, <1>2 DEF b
<1>4. Named(x, a)
  BY <1>1, SyntaxAssumption, PlainText
<1>5. TokenAt(x, a).type = Word(x, a, b) /\ TokenAt(x, a).says = SubSeq(x.chars, a, b)
  BY <1>2, <1>3, <1>4 DEF Named
<1>6. {"more"} \cap Heads = {} /\ {"more", "colon"} \cap Heads = {}
  BY DEF Heads
<1>7. ASSUME At(x, i, {":"})
      PROVE  TokenAt(x, a).type = "LABEL" /\ Opens(x, i + 1) /\ Nth(x, i) = Nth(x, a)
  <2>1. i \in 1..Len(x.chars) /\ x.parts[i] = "colon"
    BY <1>1, <1>7, PlainText DEF Is
  <2>2. Word(x, a, b) = "LABEL"
    BY <1>1, <1>2, <1>7 DEF Word
  <2>3. Run(x, a + 1, i, {"more", "colon"})
    BY <1>2, <1>3, <2>1 DEF Run
  <2>4. i \in a..Len(x.chars) /\ a \in 0..Len(x.chars)
    BY <1>1, <1>2, <2>1
  <2>5. Nth(x, i) = Nth(x, a)
    BY <1>6, <2>3, <2>4, NthRun
  <2> QED
    BY <1>5, <2>1, <2>2, <2>5, Over
<1>8. ASSUME ~At(x, i, {":"})
      PROVE  /\ Opens(x, i) /\ Nth(x, b) = Nth(x, a)
             /\ TokenAt(x, a).type = IF x.chars[a] = "$" /\ i = a + 1 THEN "DOLLAR"
                                      ELSE IF x.chars[a] = "$" /\ i = a + 2 /\ x.chars[a + 1] = "$"
                                      THEN "DDOLL" ELSE "KEY"
  <2>1. ~Is(x, b + 1, {"colon"})
    BY <1>1, <1>2, <1>8
  <2>2. Word(x, a, b) = IF x.chars[a] = "$" /\ i = a + 1 THEN "DOLLAR"
                        ELSE IF x.chars[a] = "$" /\ i = a + 2 /\ x.chars[a + 1] = "$" THEN "DDOLL" ELSE "KEY"
    BY <1>2, <2>1 DEF Word
  <2>3. a \in 0..Len(x.chars)
    BY <1>1
  <2>4. Nth(x, b) = Nth(x, a)
    BY <1>2, <1>3, <1>6, <2>3, NthRun
  <2> QED
    BY <1>1, <1>5, <1>8, <2>2, <2>4
<1> QED
  BY <1>5, <1>7, <1>8 DEF b

(* A number that began at a and is read up to i.                             *)
OneMore(x, a, i) == \/ At(x, i, Digits \cup {"a", "b"})
                    \/ At(x, i, {"."}) /\ ~\E j \in a..(i - 1) : x.chars[j] = "."
                    \/ At(x, i, {"x"}) /\ i = a + 1 /\ x.chars[a] = "0"

LEMMA DigitAfter ==
  ASSUME NEW x \in Texts, x.plain, NEW i, i - 1 \in 1..Len(x.chars), (i - 1) + 1 = i,
         x.parts[i - 1] \in {"digit", "digits"}
  PROVE  /\ At(x, i, NameChar \cup {"."}) => Is(x, i, {"digits", "h"})
         /\ i \in 1..Len(x.chars) => x.parts[i] \in Starts \cup {"digits", "h"}
<1>1. Parted(x, i - 1)
  BY PlainText DEF Follow
<1>2. Is(x, i - 1, {"digit", "digits"})
  BY PlainText DEF Is
<1> QED
  BY <1>1, <1>2, PartAfter DEF Parted

LEMMA NumGoes ==
  ASSUME NEW x \in Texts, x.plain, NEW a, Is(x, a, {"digit"}), NEW i \in a..(Len(x.chars) + 1),
         Run(x, a + 1, i - 1, {"digits"})
  PROVE  /\ a \in 1..Len(x.chars) /\ x.parts[a] = "digit" /\ i \in Nat
         /\ OneMore(x, a, i) => i \in 1..Len(x.chars) /\ Run(x, a + 1, i, {"digits"})
         /\ ~OneMore(x, a, i) => /\ i > a /\ ~Is(x, i, {"digits"}) /\ ~At(x, i, {"."})
                                 /\ At(x, i, {"h"}) <=> Is(x, i, {"h"})
                                 /\ ~At(x, i, {"h"}) => Opens(x, i)
<1>1. a \in 1..Len(x.chars) /\ x.parts[a] = "digit" /\ i \in Nat /\ DOMAIN x.chars = 1..Len(x.chars)
      /\ Len(x.chars) \in Nat
  BY PlainText DEF Is
<1>2. x.chars[a] \in Digits
  <2>1. Fits(x.parts[a], x.chars[a])
    BY <1>1, PartChars
  <2> QED
    BY <1>1, <2>1 DEF Fits
<1>3. ASSUME i > a
      PROVE  /\ At(x, i, NameChar \cup {"."}) => Is(x, i, {"digits", "h"})
             /\ i \in 1..Len(x.chars) => x.parts[i] \in Starts \cup {"digits", "h"}
  <2>1. i - 1 \in 1..Len(x.chars) /\ x.parts[i - 1] \in {"digit", "digits"} /\ (i - 1) + 1 = i
    BY <1>1, <1>3 DEF Run
  <2> QED
    BY <2>1, DigitAfter
<1>4. /\ Is(x, i, {"digits"}) => At(x, i, Digits \cup {"a", "b", ".", "x"})
      /\ Is(x, i, {"h"}) => At(x, i, {"h"})
  <2>1. i \in DOMAIN x.chars => Fits(x.parts[i], x.chars[i])
    BY <1>1, PartChars
  <2> QED
    BY <2>1 DEF Is, At, Fits
<1>5. /\ Digits \cup {"a", "b", "x", "h"} \subseteq NameChar
      /\ "h" \notin Digits \cup {"a", "b", ".", "x"}
  BY DEF NameChar, Letters, Digits
<1>6. ASSUME OneMore(x, a, i) PROVE i \in 1..Len(x.chars) /\ Run(x, a + 1, i, {"digits"})
  <2>1. At(x, i, Digits \cup {"a", "b", ".", "x"})
    BY <1>6 DEF OneMore, At
  <2>2. CASE i = a
    BY <1>1, <2>2 DEF Run
  <2>3. CASE i > a
    <3>1. Is(x, i, {"digits", "h"})
      BY <1>3, <1>5, <2>1, <2>3 DEF At
    <3>2. x.parts[i] = "digits"
      BY <1>4, <1>5, <2>1, <3>1 DEF At, Is
    <3> QED
      BY <1>1, <2>1, <2>3, <3>2 DEF Run, At
  <2> QED
    BY <1>1, <2>2, <2>3
<1>7. ASSUME ~OneMore(x, a, i)
      PROVE  /\ i > a /\ ~Is(x, i, {"digits"}) /\ ~At(x, i, {"."})
             /\ At(x, i, {"h"}) <=> Is(x, i, {"h"})
             /\ ~At(x, i, {"h"}) => Opens(x, i)
  <2>1. i > a
    <3>1. i # a
      BY <1>1, <1>2, <1>7 DEF OneMore, At
    <3> QED
      BY <1>1, <3>1
  <2>2. ASSUME Is(x, i, {"digits"}) PROVE FALSE
    <3>1. i \in a..Len(x.chars) /\ x.parts[i] = "digits" /\ Run(x, a + 1, i, {"digits"})
      BY <1>1, <2>1, <2>2 DEF Is, Run
    <3>2. Numbered(x, a)
      BY <1>1, SyntaxAssumption
    <3>3. /\ x.chars[i] = "x" => i = a + 1 /\ x.chars[a] = "0"
          /\ x.chars[i] = "." => \A j \in a..(i - 1) : x.chars[j] # "."
      BY <3>1, <3>2 DEF Numbered
    <3> QED
      BY <1>4, <1>7, <2>2, <3>3 DEF OneMore, At
  <2>3. At(x, i, {"h"}) <=> Is(x, i, {"h"})
    BY <1>3, <1>4, <1>5, <2>1, <2>2 DEF At, Is
  <2>4. ~At(x, i, {"."})
    <3>1. "." # "h"
      OBVIOUS
    <3> QED
      BY <1>3, <1>4, <2>1, <2>2, <3>1 DEF At, Is
  <2>5. ASSUME ~At(x, i, {"h"}) PROVE Opens(x, i)
    <3>1. i = Len(x.chars) + 1 \/ i \in 1..Len(x.chars)
      BY <1>1, <2>1
    <3> QED
      BY <1>1, <1>3, <2>1, <2>2, <2>3, <2>5, <3>1 DEF Opens, Is
  <2> QED
    BY <2>1, <2>2, <2>3, <2>4, <2>5
<1> QED
  BY <1>1, <1>6, <1>7

LEMMA NumSays ==
  ASSUME NEW x \in Texts, x.plain, NEW a, Is(x, a, {"digit"}), NEW i \in a..(Len(x.chars) + 1),
         Run(x, a + 1, i - 1, {"digits"}), ~OneMore(x, a, i),
         NEW k, k = IF At(x, i, {"h"}) THEN i + 1 ELSE i
  PROVE  /\ TokenAt(x, a).type = "NUM" /\ TokenAt(x, a).says = SubSeq(x.chars, a, k - 1)
         /\ Opens(x, k) /\ Nth(x, k - 1) = Nth(x, a) /\ ~At(x, i, {"."})
<1>1. /\ a \in 1..Len(x.chars) /\ x.parts[a] = "digit" /\ i > a /\ i \in Nat /\ ~Is(x, i, {"digits"})
      /\ At(x, i, {"h"}) <=> Is(x, i, {"h"})
      /\ ~At(x, i, {"h"}) => Opens(x, i)
      /\ ~At(x, i, {"."})
  BY NumGoes
<1>2. Len(x.chars) \in Nat /\ DOMAIN x.chars = 1..Len(x.chars)
  BY PlainText
<1> DEFINE b == i - 1
<1>3. b \in a..Len(x.chars) /\ b + 1 = i /\ a \in Nat /\ a \in 0..Len(x.chars)
  BY <1>1, <1>2
<1> HIDE DEF b
<1>4. Run(x, a + 1, b, {"digits"}) /\ ~Is(x, b + 1, {"digits"})
  BY <1>1, <1>3 DEF b
<1>5. Numbered(x, a)
  BY <1>1, <1>2, SyntaxAssumption
<1>6. TokenAt(x, a).type = "NUM"
      /\ TokenAt(x, a).says = SubSeq(x.chars, a, IF Is(x, b + 1, {"h"}) THEN b + 1 ELSE b)
  BY <1>3, <1>4, <1>5 DEF Numbered
<1>7. {"digits"} \cap Heads = {} /\ {"digits", "h"} \cap Heads = {}
  BY DEF Heads
<1>8. CASE At(x, i, {"h"})
  <2>1. i \in 1..Len(x.chars) /\ x.parts[i] = "h" /\ k = i + 1 /\ k - 1 = i
    BY <1>1, <1>2, <1>8 DEF Is
  <2>2. Run(x, a + 1, i, {"digits", "h"})
    BY <1>1, <1>3, <1>4, <2>1 DEF Run
  <2>3. i \in a..Len(x.chars)
    BY <1>1, <2>1
  <2>4. Nth(x, i) = Nth(x, a)
    BY <1>3, <1>7, <2>2, <2>3, NthRun
  <2> QED
    BY <1>1, <1>3, <1>6, <1>8, <2>1, <2>4, Over
<1>9. CASE ~At(x, i, {"h"})
  <2>1. k = i /\ k - 1 = b
    BY <1>9 DEF b
  <2>2. Nth(x, b) = Nth(x, a)
    BY <1>3, <1>4, <1>7, NthRun
  <2> QED
    BY <1>1, <1>3, <1>6, <1>9, <2>1, <2>2
<1> QED
  BY <1>8, <1>9

-----------------------------------------------------------------------------
(* How a string goes on: what the author says of its characters up to i.     *)
LEMMA StrSays ==
  ASSUME NEW x \in Texts, x.plain, NEW a \in 1..Len(x.chars), x.parts[a] = "open",
         NEW i \in a..Len(x.chars), Run(x, a + 1, i, Inside)
  PROVE  /\ TokenAt(x, a).type = "STR"
         /\ i > a => /\ x.parts[i] = "char" => x.chars[i] # x.chars[a]
                     /\ x.parts[i] \in {"twin", "twin2"} => x.chars[i] = x.chars[a]
                     /\ x.parts[i] \in Saying => TokenAt(x, a).says[SaidTo(x, a, i)] = Speaks(x, i)
<1>1. Spoken(x, a)
  BY SyntaxAssumption, PlainText
<1> QED
  BY <1>1 DEF Spoken

LEMMA StrRun ==
  ASSUME NEW x \in Texts, x.plain, NEW a, Is(x, a, {"open"}), NEW i, a < i,
         Run(x, a + 1, i - 1, Inside), Is(x, i, Strokes)
  PROVE  /\ a \in 1..Len(x.chars) /\ a \in Nat /\ x.parts[a] = "open" /\ x.chars[a] \in Quotes
         /\ i \in a..Len(x.chars) /\ i \in 1..Len(x.chars) /\ i \in Nat /\ x.parts[i] \in Strokes
         /\ i - 1 \in a..Len(x.chars) /\ (i - 1) + 1 = i /\ (i - 1) + 2 = i + 1
         /\ x.parts[i] \in Inside => Run(x, a + 1, i, Inside)
<1>1. /\ a \in 1..Len(x.chars) /\ i \in 1..Len(x.chars) /\ Len(x.chars) \in Nat
      /\ x.parts[a] = "open" /\ x.parts[i] \in Strokes
  BY PlainText DEF Is
<1>2. x.chars[a] \in Quotes
  <2>1. Fits(x.parts[a], x.chars[a])
    BY <1>1, PartChars
  <2> QED
    BY <1>1, <2>1 DEF Fits
<1>3. /\ a \in Nat /\ i \in Nat /\ i \in a..Len(x.chars) /\ i - 1 \in a..Len(x.chars)
      /\ (i - 1) + 1 = i /\ (i - 1) + 2 = i + 1
  BY <1>1
<1>4. x.parts[i] \in Inside => Run(x, a + 1, i, Inside)
  BY <1>3 DEF Run
<1> QED
  BY <1>1, <1>2, <1>3, <1>4

SaidAll(x, a, i) ==
  /\ Len(TokenAt(x, a).says) = SaidTo(x, a, i - 1)
  /\ TokenAt(x, a).escaped <=> \E j \in (a+1)..(i - 1) : x.parts[j] \in Escapes

LEMMA StrCloses ==
  ASSUME NEW x \in Texts, x.plain, NEW a, Is(x, a, {"open"}), NEW i, a < i,
         Run(x, a + 1, i - 1, Inside), Is(x, i, {"close"})
  PROVE  /\ TokenAt(x, a).type = "STR"
         /\ x.chars[i] = x.chars[a] /\ ~At(x, i+1, {x.chars[a]})
         /\ SaidAll(x, a, i)
<1>1. /\ a \in 1..Len(x.chars) /\ a \in Nat /\ x.parts[a] = "open" /\ i \in Nat
      /\ i - 1 \in a..Len(x.chars) /\ (i - 1) + 1 = i /\ (i - 1) + 2 = i + 1
  <2>1. Is(x, i, Strokes)
    BY DEF Is, Strokes
  <2> QED
    BY <2>1, StrRun
<1>2. Spoken(x, a)
  BY <1>1, SyntaxAssumption, PlainText
<1> DEFINE b == i - 1
<1>3. Is(x, b + 1, {"close"}) /\ b \in a..Len(x.chars) /\ Run(x, a + 1, b, Inside)
  BY <1>1
<1> HIDE DEF b
<1>4. Run(x, a+1, b, Inside) =>
      /\ TokenAt(x, a).type = "STR"
      /\ Is(x, b+1, {"close"}) =>
           /\ x.chars[b+1] = x.chars[a] /\ ~At(x, b+2, {x.chars[a]})
           /\ Len(TokenAt(x, a).says) = SaidTo(x, a, b)
           /\ TokenAt(x, a).escaped <=> \E j \in (a+1)..b : x.parts[j] \in Escapes
  BY <1>2, <1>3 DEF Spoken
<1>5. /\ TokenAt(x, a).type = "STR"
      /\ x.chars[b+1] = x.chars[a] /\ ~At(x, b+2, {x.chars[a]})
      /\ Len(TokenAt(x, a).says) = SaidTo(x, a, b)
      /\ TokenAt(x, a).escaped <=> \E j \in (a+1)..b : x.parts[j] \in Escapes
  BY <1>3, <1>4
<1> QED
  BY <1>1, <1>5 DEF b, SaidAll

(* What the part of the character at i says of it and of the next one.       *)
LEMMA StrPart ==
  ASSUME NEW x \in Texts, x.plain, NEW a, Is(x, a, {"open"}), NEW i, a < i,
         Run(x, a + 1, i - 1, Inside), Is(x, i, Strokes)
  PROVE  /\ x.parts[i] = "char"  => x.chars[i] # x.chars[a] /\ x.chars[i] # "\\"
         /\ x.parts[i] = "twin"  => /\ x.chars[i] = x.chars[a] /\ x.parts[i+1] = "twin2"
                                    /\ x.chars[i+1] = x.chars[a]
         /\ x.parts[i] = "close" => x.chars[i] = x.chars[a] /\ ~At(x, i+1, {x.chars[a]})
         /\ x.parts[i] = "esc"   => /\ x.chars[i] = "\\" /\ x.parts[i+1] = "esc2"
                                    /\ x.chars[i+1] \in {"r", "n", "t"}
         /\ x.parts[i] = "lone"  => x.chars[i] = "\\" /\ ~At(x, i+1, {"r", "n", "t"})
         /\ x.parts[i] # "close" => i + 1 \in 1..Len(x.chars)
         /\ x.parts[i] \in {"char", "twin", "esc", "lone", "close"}
<1>1. /\ a \in 1..Len(x.chars) /\ a \in Nat /\ x.parts[a] = "open"
      /\ i \in a..Len(x.chars) /\ i \in 1..Len(x.chars) /\ i \in Nat /\ x.parts[i] \in Strokes
      /\ i - 1 \in a..Len(x.chars) /\ (i - 1) + 1 = i /\ (i - 1) + 2 = i + 1
      /\ x.parts[i] \in Inside => Run(x, a + 1, i, Inside)
  BY StrRun
<1>2. x.parts[i] \in {"char", "twin", "esc", "lone", "close"}
  BY <1>1 DEF Strokes
<1>3. {"char", "twin", "esc", "lone"} \subseteq Inside /\ {"twin2", "esc2"} \subseteq Inside
  BY DEF Inside
<1>4. x.parts[i] # "close" => i + 1 \in 1..Len(x.chars)
  BY <1>1, <1>2, LastPart
<1>5. Fits(x.parts[i], x.chars[i]) /\ Parted(x, i)
      /\ (i + 1 \in 1..Len(x.chars) => Fits(x.parts[i+1], x.chars[i+1]))
  BY <1>1, PartChars, PlainText DEF Follow
<1>6. x.parts[i] = "char" => x.chars[i] # x.chars[a] /\ x.chars[i] # "\\"
  <2>1. x.parts[i] = "char" => x.chars[i] # x.chars[a]
    BY <1>1, <1>3, StrSays
  <2> QED
    BY <1>5, <2>1 DEF Fits
<1>7. ASSUME x.parts[i] = "twin"
      PROVE  x.chars[i] = x.chars[a] /\ x.parts[i+1] = "twin2" /\ x.chars[i+1] = x.chars[a]
  <2>1. i + 1 \in 1..Len(x.chars) /\ x.parts[i+1] = "twin2"
    BY <1>1, <1>4, <1>7, PartAfter
  <2>2. i + 1 \in a..Len(x.chars) /\ i + 1 > a /\ Run(x, a + 1, i + 1, Inside)
    BY <1>1, <1>3, <1>7, <2>1 DEF Run
  <2>3. x.chars[i] = x.chars[a]
    BY <1>1, <1>3, <1>7, StrSays
  <2>4. x.chars[i+1] = x.chars[a]
    <3> DEFINE k == i + 1
    <3>1. k \in a..Len(x.chars) /\ k > a /\ Run(x, a + 1, k, Inside) /\ x.parts[k] \in {"twin", "twin2"}
      BY <2>1, <2>2
    <3> HIDE DEF k
    <3>2. x.chars[k] = x.chars[a]
      BY <1>1, <3>1, StrSays
    <3> QED
      BY <3>2 DEF k
  <2> QED
    BY <2>1, <2>3, <2>4
<1>8. ASSUME x.parts[i] = "close"
      PROVE  x.chars[i] = x.chars[a] /\ ~At(x, i+1, {x.chars[a]})
  <2>1. Is(x, i, {"close"})
    BY <1>8 DEF Is
  <2> QED
    BY <2>1, StrCloses
<1>9. ASSUME x.parts[i] = "esc"
      PROVE  x.chars[i] = "\\" /\ x.parts[i+1] = "esc2" /\ x.chars[i+1] \in {"r", "n", "t"}
  <2>1. i + 1 \in 1..Len(x.chars) /\ x.parts[i+1] = "esc2"
    BY <1>1, <1>4, <1>9, PartAfter
  <2> QED
    BY <1>5, <1>9, <2>1 DEF Fits
<1>10. x.parts[i] = "lone"  => x.chars[i] = "\\" /\ ~At(x, i+1, {"r", "n", "t"})
  <2>1. x.parts[i] = "lone" => Is(x, i, {"lone"})
    BY <1>1, PlainText DEF Is
  <2> QED
    BY <1>5, <2>1 DEF Fits, Parted
<1> QED
  BY <1>2, <1>4, <1>6, <1>7, <1>8, <1>9, <1>10

(* One more part that says a character c, and n of them in all.              *)
LEMMA KeptPut ==
  ASSUME NEW x \in Texts, x.plain, NEW a, NEW n \in Nat, NEW s, NEW c \in Chars,
         Kept(x, a, n, s), TokenAt(x, a).says[n + 1] = c
  PROVE  Kept(x, a, n + 1, Put(s, c))
<1>1. s \in Seq(Chars) /\ Len(s) \in Nat /\ Len(s) <= n /\ (Len(s) = n \/ Len(s) >= BufSize - 1)
      /\ \A j \in 1..Len(s) : s[j] = TokenAt(x, a).says[j]
  BY DEF Kept
<1>2. BufSize \in Nat \ {0}
  BY BufSizeAssumption
<1>3. CASE Len(s) < BufSize - 1
  <2>1. Put(s, c) = Append(s, c) /\ Len(s) = n
    BY <1>1, <1>2, <1>3 DEF Put
  <2>2. Append(s, c) \in Seq(Chars) /\ Len(Append(s, c)) = n + 1
    BY <1>1, <2>1
  <2>3. \A j \in 1..(n + 1) : Append(s, c)[j] = TokenAt(x, a).says[j]
    BY <1>1, <2>1
  <2> QED
    BY <2>1, <2>2, <2>3 DEF Kept
<1>4. CASE ~(Len(s) < BufSize - 1)
  <2>1. Put(s, c) = s /\ Len(s) >= BufSize - 1 /\ Len(s) <= n + 1
    BY <1>1, <1>2, <1>4 DEF Put
  <2> QED
    BY <1>1, <2>1 DEF Kept
<1> QED
  BY <1>3, <1>4

(* What ENSURE_LOCAL_BUFF has copied.                                        *)
LocalOf(x, a, i, local, s) ==
  IF local THEN s ELSE SubSeq(x.chars, a + 1, Min2(a + 1 + BufSize, i) - 1)

LEMMA LocalKept ==
  ASSUME NEW x \in Texts, x.plain, NEW a, NEW i, NEW local \in BOOLEAN, NEW s,
         Heard(x, a, i, local, s)
  PROVE  Kept(x, a, SaidTo(x, a, i - 1), LocalOf(x, a, i, local, s))
<1>1. a \in 1..Len(x.chars) /\ i \in 1..Len(x.chars) /\ a < i /\ Len(x.chars) \in Nat
  BY PlainText DEF Heard, Is
<1>2. CASE local
  BY <1>2 DEF Heard, LocalOf
<1>3. CASE ~local
  <2> DEFINE n == i - 1 - a
             e == Min2(a + 1 + BufSize, i) - 1
             t == SubSeq(x.chars, a + 1, e)
  <2>1. SaidTo(x, a, i - 1) = n /\ Stood(x, a, n) /\ LocalOf(x, a, i, local, s) = t
    BY <1>3 DEF Heard, LocalOf
  <2>2. BufSize \in Nat \ {0} /\ a \in Nat /\ i \in Nat /\ n \in Nat
    BY <1>1, BufSizeAssumption
  <2>3. e \in Nat /\ e >= a /\ e <= i - 1 /\ (e = i - 1 \/ e = a + BufSize)
    BY <1>1, <2>2 DEF Min2
  <2> HIDE DEF e
  <2>4. t \in Seq(Chars) /\ Len(t) = e - a /\ \A j \in 1..(e - a) : t[j] = x.chars[a + j]
    <3>1. x.chars \in Seq(Chars)
      BY PlainText
    <3>2. a + 1 \in 1..(e + 1) /\ e \in 0..Len(x.chars)
      BY <1>1, <2>2, <2>3
    <3> HIDE DEF n
    <3>3. IF a + 1 <= e THEN Len(t) = e - (a + 1) + 1 ELSE Len(t) = 0
      BY <1>1, <2>3, <3>1, <3>2
    <3>4. t \in Seq(Chars)
      BY <1>1, <2>3, <3>1, <3>2
    <3>5. Len(t) = e - a
      BY <1>1, <2>2, <2>3, <3>3
    <3>6. \A j \in 1..(e - a) : t[j] = x.chars[a + 1 + j - 1]
      BY <1>1, <2>2, <2>3, <3>1, <3>2
    <3>7. \A j \in 1..(e - a) : a + 1 + j - 1 = a + j
      BY <2>2, <2>3
    <3> QED
      BY <3>4, <3>5, <3>6, <3>7
  <2> HIDE DEF t
  <2>5. Len(t) <= n /\ (Len(t) = n \/ Len(t) >= BufSize - 1)
    BY <2>2, <2>3, <2>4
  <2>6. \A j \in 1..Len(t) : t[j] = TokenAt(x, a).says[j]
    <3>1. \A j \in 1..Len(t) : j \in 1..n
      BY <2>2, <2>4, <2>5
    <3> QED
      BY <2>1, <2>4, <3>1 DEF Stood
  <2> QED
    BY <2>1, <2>4, <2>5, <2>6 DEF Kept
<1> QED
  BY <1>2, <1>3

LEMMA HeardType ==
  ASSUME NEW x \in Texts, x.plain, NEW a, NEW i, NEW local \in BOOLEAN, NEW s, Heard(x, a, i, local, s)
  PROVE  /\ Is(x, a, {"open"}) /\ a < i /\ Run(x, a + 1, i - 1, Inside) /\ Is(x, i, Strokes)
         /\ a \in 1..Len(x.chars) /\ a \in Nat /\ i \in 1..Len(x.chars) /\ i \in Nat /\ i - 1 \in Nat
         /\ Len(x.chars) \in Nat /\ SaidTo(x, a, i - 1) \in Nat /\ x.chars[i] \in Chars
<1>1. Is(x, a, {"open"}) /\ a < i /\ Run(x, a + 1, i - 1, Inside) /\ Is(x, i, Strokes)
  BY DEF Heard
<1>2. a \in 1..Len(x.chars) /\ i \in 1..Len(x.chars) /\ Len(x.chars) \in Nat
  BY <1>1, PlainText DEF Is
<1>3. a \in Nat /\ i \in Nat /\ i - 1 \in Nat
  BY <1>2
<1>4. SaidTo(x, a, i - 1) \in Nat
  BY <1>3, SaidNext
<1>5. x.chars[i] \in Chars
  BY <1>2, PlainText
<1> QED
  BY <1>1, <1>2, <1>3, <1>4, <1>5

(* The part at i alone says a character.                                     *)
LEMMA SaysOne ==
  ASSUME NEW x \in Texts, x.plain, NEW a, NEW i, NEW local \in BOOLEAN, NEW s, Heard(x, a, i, local, s),
         x.parts[i] \in {"char", "lone"}
  PROVE  /\ Run(x, a + 1, i, Inside) /\ Is(x, i + 1, Strokes)
         /\ SaidTo(x, a, i) = SaidTo(x, a, i - 1) + 1
         /\ TokenAt(x, a).says[SaidTo(x, a, i - 1) + 1] = x.chars[i]
<1>1. /\ Is(x, a, {"open"}) /\ a < i /\ Run(x, a + 1, i - 1, Inside) /\ Is(x, i, Strokes)
      /\ a \in 1..Len(x.chars) /\ a \in Nat /\ i \in 1..Len(x.chars) /\ i \in Nat
  BY HeardType
<1>2. x.parts[i] \in Inside /\ x.parts[i] \in Saying /\ x.parts[i] # "esc2"
  BY DEF Inside, Saying
<1>3. i \in a..Len(x.chars) /\ x.parts[a] = "open" /\ Run(x, a + 1, i, Inside) /\ x.parts[i] # "close"
  BY <1>1, <1>2, StrRun
<1>4. Is(x, i + 1, Strokes)
  <2>1. i + 1 \in 1..Len(x.chars)
    BY <1>1, <1>3, StrPart
  <2> QED
    BY <1>1, <2>1, PartAfter, PlainText DEF Is
<1>5. SaidTo(x, a, i) = SaidTo(x, a, i - 1) + 1
  BY <1>1, <1>2, SaidNext
<1>6. TokenAt(x, a).says[SaidTo(x, a, i)] = x.chars[i]
  <2>1. TokenAt(x, a).says[SaidTo(x, a, i)] = Speaks(x, i)
    BY <1>1, <1>2, <1>3, StrSays
  <2> QED
    BY <1>2, <2>1 DEF Speaks
<1> QED
  BY <1>3, <1>4, <1>5, <1>6

(* The parts at i and behind it say one character.                           *)
LEMMA SaysPair ==
  ASSUME NEW x \in Texts, x.plain, NEW a, NEW i, NEW local \in BOOLEAN, NEW s, Heard(x, a, i, local, s),
         x.parts[i] \in {"twin", "esc"}
  PROVE  /\ Run(x, a + 1, i + 1, Inside) /\ Is(x, i + 2, Strokes)
         /\ SaidTo(x, a, i + 1) = SaidTo(x, a, i - 1) + 1
         /\ TokenAt(x, a).says[SaidTo(x, a, i - 1) + 1] = Speaks(x, i + 1)
<1>1. /\ Is(x, a, {"open"}) /\ a < i /\ Run(x, a + 1, i - 1, Inside) /\ Is(x, i, Strokes)
      /\ a \in 1..Len(x.chars) /\ a \in Nat /\ i \in 1..Len(x.chars) /\ i \in Nat
      /\ Len(x.chars) \in Nat
  BY HeardType
<1>2. x.parts[i] \in Inside /\ x.parts[i] \notin Saying /\ x.parts[i] # "close"
  BY DEF Inside, Saying
<1>3. i \in a..Len(x.chars) /\ x.parts[a] = "open" /\ Run(x, a + 1, i, Inside)
  BY <1>1, <1>2, StrRun
<1> DEFINE k == i + 1
<1>4. k \in 1..Len(x.chars) /\ x.parts[k] \in {"twin2", "esc2"}
  <2>1. i + 1 \in 1..Len(x.chars)
    BY <1>1, <1>2, StrPart
  <2> QED
    BY <1>1, <2>1, PartAfter
<1>5. k \in a..Len(x.chars) /\ k > a /\ k - 1 = i /\ k \in Nat /\ i - 1 \in Nat /\ i > a
  BY <1>1, <1>4
<1> HIDE DEF k
<1>6. x.parts[k] \in Inside /\ x.parts[k] \in Saying
  BY <1>4 DEF Inside, Saying
<1>7. Run(x, a + 1, k, Inside)
  BY <1>1, <1>3, <1>5, <1>6 DEF Run
<1>8. Is(x, k + 1, Strokes)
  <2>1. k + 1 \in 1..Len(x.chars)
    BY <1>4, LastPart
  <2> QED
    BY <1>4, <2>1, PartAfter, PlainText DEF Is
<1>9. SaidTo(x, a, k) = SaidTo(x, a, i - 1) + 1
  <2>1. SaidTo(x, a, k) = SaidTo(x, a, i) + 1
    BY <1>1, <1>5, <1>6, SaidNext
  <2>2. SaidTo(x, a, i) = SaidTo(x, a, i - 1) + 0
    BY <1>1, <1>2, <1>5, SaidNext
  <2>3. SaidTo(x, a, i - 1) \in Nat
    BY <1>1, <1>5, SaidNext
  <2> QED
    BY <2>1, <2>2, <2>3
<1>10. TokenAt(x, a).says[SaidTo(x, a, k)] = Speaks(x, k)
  BY <1>1, <1>3, <1>5, <1>6, <1>7, StrSays
<1>11. k + 1 = i + 2
  BY <1>1 DEF k
<1> QED
  BY <1>7, <1>8, <1>9, <1>10, <1>11 DEF k

(* The string up to k, when the parts from i on say c and are escapes.       *)
LEMMA HeardEscape ==
  ASSUME NEW x \in Texts, x.plain, NEW a, NEW i, NEW local \in BOOLEAN, NEW s, Heard(x, a, i, local, s),
         NEW k \in Nat, i < k, Run(x, a + 1, k - 1, Inside), Is(x, k, Strokes), x.parts[i] \in Escapes,
         SaidTo(x, a, k - 1) = SaidTo(x, a, i - 1) + 1,
         NEW c \in Chars, TokenAt(x, a).says[SaidTo(x, a, i - 1) + 1] = c
  PROVE  Heard(x, a, k, TRUE, Put(LocalOf(x, a, i, local, s), c))
<1>1. /\ Is(x, a, {"open"}) /\ a < i /\ a \in Nat /\ i \in Nat /\ SaidTo(x, a, i - 1) \in Nat
  BY HeardType
<1>2. Kept(x, a, SaidTo(x, a, i - 1), LocalOf(x, a, i, local, s))
  BY LocalKept
<1>3. Kept(x, a, SaidTo(x, a, k - 1), Put(LocalOf(x, a, i, local, s), c))
  BY <1>1, <1>2, KeptPut
<1>4. \E j \in (a + 1)..(k - 1) : x.parts[j] \in Escapes
  <2>1. i \in (a + 1)..(k - 1)
    BY <1>1
  <2> QED
    BY <2>1
<1>5. a < k
  BY <1>1
<1> QED
  BY <1>1, <1>3, <1>4, <1>5 DEF Heard

LEMMA HeardChar ==
  ASSUME NEW x \in Texts, x.plain, NEW a, NEW i, NEW local \in BOOLEAN, NEW s, Heard(x, a, i, local, s),
         x.parts[i] = "char", NEW t, local => t = Put(s, x.chars[i])
  PROVE  Heard(x, a, i + 1, local, t)
<1>1. /\ Is(x, a, {"open"}) /\ a < i /\ a \in Nat /\ i \in Nat /\ SaidTo(x, a, i - 1) \in Nat
      /\ x.chars[i] \in Chars
  BY HeardType
<1>2. /\ Run(x, a + 1, i, Inside) /\ Is(x, i + 1, Strokes)
      /\ SaidTo(x, a, i) = SaidTo(x, a, i - 1) + 1
      /\ TokenAt(x, a).says[SaidTo(x, a, i - 1) + 1] = x.chars[i]
  BY SaysOne
<1>3. (i + 1) - 1 = i /\ a < i + 1
  BY <1>1
<1>4. local <=> \E j \in (a + 1)..i : x.parts[j] \in Escapes
  <2>1. local <=> \E j \in (a + 1)..(i - 1) : x.parts[j] \in Escapes
    BY DEF Heard
  <2>2. x.parts[i] \notin Escapes
    BY DEF Escapes
  <2>3. \A j : j \in (a + 1)..i <=> (j \in (a + 1)..(i - 1) \/ j = i)
    BY <1>1
  <2> QED
    BY <2>1, <2>2, <2>3
<1>5. local => Kept(x, a, SaidTo(x, a, i), t)
  <2>1. local => Kept(x, a, SaidTo(x, a, i - 1), s)
    BY DEF Heard
  <2> QED
    BY <1>1, <1>2, <2>1, KeptPut
<1>6. ASSUME ~local PROVE SaidTo(x, a, i) = i - a /\ Stood(x, a, i - a)
  <2>1. SaidTo(x, a, i - 1) = i - 1 - a /\ Stood(x, a, i - 1 - a)
    BY <1>6 DEF Heard
  <2>2. SaidTo(x, a, i) = i - a
    BY <1>1, <1>2, <2>1
  <2>3. TokenAt(x, a).says[i - a] = x.chars[a + (i - a)]
    <3>1. i - 1 - a + 1 = i - a /\ a + (i - a) = i
      BY <1>1
    <3> QED
      BY <1>2, <2>1, <3>1
  <2>4. \A j \in 1..(i - a) : j \in 1..(i - 1 - a) \/ j = i - a
    BY <1>1
  <2> QED
    BY <2>1, <2>2, <2>3, <2>4 DEF Stood
<1>7. (i + 1) - 1 - a = i - a
  BY <1>1
<1> QED
  BY <1>1, <1>2, <1>3, <1>4, <1>5, <1>6, <1>7 DEF Heard

LEMMA HeardOpens ==
  ASSUME NEW x \in Texts, x.plain, NEW a \in 1..Len(x.chars), x.parts[a] = "open", NEW s
  PROVE  a + 1 \in 1..Len(x.chars) /\ Heard(x, a, a + 1, FALSE, s)
<1>1. a \in Nat /\ a < a + 1 /\ (a + 1) - 1 = a /\ (a + 1) - 1 - a = 0 /\ Is(x, a, {"open"})
  BY PlainText DEF Is
<1>2. a + 1 \in 1..Len(x.chars)
  BY LastPart
<1>3. Is(x, a + 1, Strokes)
  BY <1>2, PartAfter, PlainText DEF Is
<1>4. Run(x, a + 1, a, Inside) /\ (\A j \in (a + 1)..a : FALSE) /\ Stood(x, a, 0)
  BY <1>1 DEF Run, Stood
<1>5. SaidTo(x, a, a) = 0
  BY <1>1, SaidNext
<1> QED
  BY <1>1, <1>2, <1>3, <1>4, <1>5 DEF Heard

(* The string ends in front of i: what the token says.                       *)
LEMMA HeardCloses ==
  ASSUME NEW x \in Texts, x.plain, NEW a, NEW i, NEW local \in BOOLEAN, NEW s, Heard(x, a, i, local, s),
         x.parts[i] = "close"
  PROVE  /\ TokenAt(x, a).type = "STR" /\ Opens(x, i + 1) /\ Nth(x, i) = Nth(x, a)
         /\ local <=> TokenAt(x, a).escaped
         /\ local => Kept(x, a, Len(TokenAt(x, a).says), s)
         /\ ~local => /\ Len(TokenAt(x, a).says) = i - 1 - a
                      /\ Stood(x, a, i - 1 - a)
<1>1. /\ Is(x, a, {"open"}) /\ a < i /\ Run(x, a + 1, i - 1, Inside) /\ Is(x, i, Strokes)
      /\ a \in 1..Len(x.chars) /\ a \in Nat /\ i \in 1..Len(x.chars) /\ i \in Nat
  BY HeardType
<1>2. Is(x, i, {"close"})
  BY <1>1, PlainText DEF Is
<1>3. /\ TokenAt(x, a).type = "STR"
      /\ Len(TokenAt(x, a).says) = SaidTo(x, a, i - 1)
      /\ TokenAt(x, a).escaped <=> \E j \in (a+1)..(i - 1) : x.parts[j] \in Escapes
  <2>1. TokenAt(x, a).type = "STR" /\ SaidAll(x, a, i)
    BY <1>1, <1>2, StrCloses
  <2> QED
    BY <2>1 DEF SaidAll
<1>4. Opens(x, i + 1)
  BY <1>1, Over
<1>5. Nth(x, i) = Nth(x, a)
  <2>1. Run(x, a + 1, i, Inside \cup {"close"})
    BY <1>1 DEF Run
  <2>2. (Inside \cup {"close"}) \cap Heads = {}
    BY DEF Inside, Heads
  <2>3. a \in 0..Len(x.chars) /\ i \in a..Len(x.chars)
    BY <1>1
  <2> QED
    BY <2>1, <2>2, <2>3, NthRun
<1> QED
  BY <1>3, <1>4, <1>5 DEF Heard

(* The characters a string stands at, as SubSeq takes them.                  *)
LEMMA StoodSays ==
  ASSUME NEW x \in Texts, x.plain, NEW a \in 1..Len(x.chars), NEW i \in (a + 1)..Len(x.chars),
         NEW says \in Seq(Chars), says = TokenAt(x, a).says, Len(says) = i - 1 - a, Stood(x, a, i - 1 - a)
  PROVE  SubSeq(x.chars, a + 1, i - 1) = says
<1>1. x.chars \in Seq(Chars) /\ a \in Nat /\ i \in Nat /\ Len(x.chars) \in Nat
  BY PlainText
<1> DEFINE t == SubSeq(x.chars, a + 1, i - 1)
           n == i - 1 - a
<1>2. n \in Nat
  BY <1>1
<1>3. t \in Seq(Chars) /\ Len(t) = n /\ \A j \in 1..n : t[j] = x.chars[a + 1 + j - 1]
  <2>1. a + 1 \in 1..Len(x.chars) + 1 /\ i - 1 \in 0..Len(x.chars)
    BY <1>1
  <2>2. IF a + 1 <= i - 1 THEN Len(t) = (i - 1) - (a + 1) + 1 ELSE Len(t) = 0
    BY <1>1, <2>1
  <2>3. t \in Seq(Chars) /\ Len(t) = n
    BY <1>1, <2>1, <2>2
  <2> QED
    BY <1>1, <2>1, <2>3
<1>4. \A j \in 1..n : a + 1 + j - 1 = a + j
  BY <1>1
<1>5. \A j \in 1..n : x.chars[a + j] = says[j]
  BY DEF Stood
<1> HIDE DEF t, n
<1>6. \A j \in 1..n : t[j] = says[j]
  BY <1>3, <1>4, <1>5
<1>7. Len(says) = n
  BY DEF n
<1>8. t = says
  BY <1>2, <1>3, <1>6, <1>7
<1> QED
  BY <1>8 DEF t

LEMMA KeptSays ==
  ASSUME NEW x \in Texts, x.plain, NEW a, NEW s, NEW says \in Seq(Chars), says = TokenAt(x, a).says,
         Kept(x, a, Len(says), s)
  PROVE  /\ s = SubSeq(says, 1, Min2(Len(says), Len(s)))
         /\ Len(s) >= Min2(Len(says), BufSize - 1)
<1>1. /\ s \in Seq(Chars) /\ Len(s) <= Len(says) /\ (Len(s) = Len(says) \/ Len(s) >= BufSize - 1)
      /\ \A j \in 1..Len(s) : s[j] = says[j]
  BY DEF Kept
<1>2. Len(s) \in Nat /\ Len(says) \in Nat /\ BufSize \in Nat
  BY <1>1, BufSizeAssumption
<1>3. Min2(Len(says), Len(s)) = Len(s)
  BY <1>1, <1>2 DEF Min2
<1>4. Len(s) >= Min2(Len(says), BufSize - 1)
  BY <1>1, <1>2 DEF Min2
<1> DEFINE t == SubSeq(says, 1, Len(s))
<1>5. t \in Seq(Chars) /\ Len(t) = Len(s) /\ \A j \in 1..Len(s) : t[j] = says[j]
  BY <1>1, <1>2
<1> HIDE DEF t
<1>6. t = s
  BY <1>1, <1>2, <1>5
<1> QED
  BY <1>3, <1>4, <1>6 DEF t

-----------------------------------------------------------------------------
(* The token given is the one that was written at a.                         *)
LEMMA GivesSole ==
  ASSUME LexInv, text' = text, errs' = 0, status' = "idle",
         NEW a, NEW t, t = tk', t.type = TokenAt(text, a).type, t.type \notin {"KEY", "LABEL", "NUM", "STR"},
         Opens(text, bufc'), given' = Nth(text, a), given' = Nth(text, bufc' - 1)
  PROVE  LexInv'
<1>1. text.tokens[given'] = TokenAt(text, a)
  BY DEF TokenAt
<1>2. Rightly'
  BY <1>1 DEF Rightly
<1> QED
  BY <1>2, ArriveBetween

LEMMA GivesText ==
  ASSUME LexInv, text' = text, errs' = 0, status' = "idle",
         NEW a, NEW t, t = tk', t.type = TokenAt(text, a).type, t.type # "STR", ~t.local,
         SubSeq(text.chars, t.key, t.kend - 1) = TokenAt(text, a).says,
         Opens(text, bufc'), given' = Nth(text, a), given' = Nth(text, bufc' - 1)
  PROVE  LexInv'
<1>1. text.tokens[given'] = TokenAt(text, a)
  BY DEF TokenAt
<1>2. Said' = TokenAt(text, a).says
  BY DEF Said, buf
<1>3. Rightly'
  BY <1>1, <1>2 DEF Rightly
<1> QED
  BY <1>3, ArriveBetween

LEMMA GivesStr ==
  ASSUME LexInv, text' = text, errs' = 0, status' = "idle",
         NEW a, NEW t, t = tk', t.type = "STR", TokenAt(text, a).type = "STR",
         NEW said, said = Said', said = Cut(TokenAt(text, a).says)',
         t.local <=> TokenAt(text, a).escaped,
         Len(said) >= Min2(Len(TokenAt(text, a).says), BufSize - 1),
         Opens(text, bufc'), given' = Nth(text, a), given' = Nth(text, bufc' - 1)
  PROVE  LexInv'
<1>1. text.tokens[given'] = TokenAt(text, a)
  BY DEF TokenAt
<1>2. (text.tokens[given])' = TokenAt(text, a)
  BY <1>1
<1>3. Rightly'
  BY <1>2 DEF Rightly, Cut
<1> QED
  BY <1>3, ArriveBetween

-----------------------------------------------------------------------------
(* blexer_next starts with an empty token.                                   *)
Fresh == status \in {"next", "comment", "block"} => tk = NoToken

LEMMA FreshStep == ASSUME Fresh, [Next]_vars
                   PROVE  Fresh'
<1>1. CASE Next
  BY <1>1 DEF Fresh, Next, Call, Blank, LineEnd, Mark, Slash, Shift, Invalid, End, LineComment, EatComment,
     BlockComment, EatBlock, EndOfBlock, Alpha, AlphaMore, AlphaEnd, Num, NumMore, NumEnd, OpenString,
     OpenAtEnd, CloseString, DoubledQuote, EscapeLetter, Backslash, StrLineEnd, StrMore, Unterminated,
     Clear, AtNext, AtStr, Loop, Give, Single, Fail
<1>2. CASE UNCHANGED vars
  BY <1>2 DEF Fresh, vars
<1> QED
  BY <1>1, <1>2

-----------------------------------------------------------------------------
(* Each action leads on in a plain text, or cannot happen there.             *)
LEMMA CallReads == ASSUME IInv, LexInv, text.plain, Call
                   PROVE  LexInv'
<1>1. text' = text /\ errs' = errs /\ status' = "next" /\ bufc' = bufc /\ given' = given /\ status = "idle"
  BY DEF Call, fixed, place, Loop
<1>2. errs = 0 /\ Opens(text, bufc) /\ given = Nth(text, bufc - 1)
  BY <1>1 DEF LexInv, Between
<1> QED
  BY <1>1, <1>2, ArriveNext

LEMMA BlankReads == ASSUME IInv, LexInv, text.plain, Blank
                    PROVE  LexInv'
<1>1. AtNext({"sp"}) /\ text' = text /\ errs' = errs /\ status' = status /\ bufc' = bufc + 1 /\ given' = given
  BY DEF Blank, fixed, Skip
<1>2. /\ bufc \in 1..Len(text.chars) /\ text.chars[bufc] = "sp" /\ text.parts[bufc] \in Starts
      /\ status = "next" /\ given = Nth(text, bufc - 1) /\ errs = 0
  BY <1>1, Found
<1>3. text.parts[bufc] = "sp" /\ text \in Texts
  BY <1>2, StartPart, Standing
<1>4. Nth(text, bufc) = Nth(text, bufc - 1)
  BY <1>2, <1>3, NthStays DEF Heads
<1>5. Opens(text, bufc + 1) /\ (bufc + 1) - 1 = bufc
  BY <1>2, <1>3, Over, Standing
<1> QED
  BY <1>1, <1>2, <1>4, <1>5, ArriveNext

LEMMA EndReads == ASSUME IInv, LexInv, text.plain, End
                  PROVE  LexInv'
<1>1. status = "next" /\ bufc >= bufe /\ text' = text /\ errs' = errs /\ status' = "end"
      /\ bufc' = bufc /\ given' = given
  BY DEF End, fixed, place, Loop
<1>2. errs = 0 /\ Opens(text, bufc) /\ given = Nth(text, bufc - 1)
  BY <1>1 DEF LexInv, Between
<1>3. bufc = bufe
  BY <1>1, Standing
<1>4. Rightly'
  BY <1>1 DEF Rightly
<1> QED
  BY <1>1, <1>2, <1>3, <1>4, ArriveBetween

LEMMA LineCommentReads == ASSUME IInv, LexInv, text.plain, LineComment
                          PROVE  LexInv'
<1>1. /\ text' = text /\ errs' = errs /\ status' = "comment" /\ given' = given
      /\ \/ AtNext({";"}) /\ bufc' = bufc + 1
         \/ AtNext({"/"}) /\ Has(bufc + 1, "/") /\ bufc' = bufc + 2
  BY DEF LineComment, fixed, Loop, Skip
<1>2. text \in Texts /\ Len(text.chars) \in Nat /\ bufc \in Nat /\ bufe = Len(text.chars) + 1
      /\ DOMAIN text.chars = 1..Len(text.chars) /\ buf = text.chars
  BY Standing
<1>3. CASE AtNext({";"}) /\ bufc' = bufc + 1
  <2>1. /\ bufc \in 1..Len(text.chars) /\ text.chars[bufc] \in {";"} /\ text.parts[bufc] \in Starts
        /\ given = Nth(text, bufc - 1) /\ errs = 0
    BY <1>3, Found
  <2>2. bufc \in 1..Len(text.chars) /\ given = Nth(text, bufc - 1) /\ errs = 0
    BY <2>1
  <2>3. text.parts[bufc] = "semi"
    BY <1>2, <2>1, StartPart
  <2>4. bufc = Len(text.chars) \/ Is(text, bufc + 1, {"remark", "eol"})
    BY <1>2, <2>2, <2>3, RemarkGoes
  <2>5. Nth(text, bufc) = given
    BY <1>2, <2>2, <2>3, RemarkGoes
  <2>6. (bufc + 1) - 1 = bufc /\ (bufc + 1 = bufe \/ Is(text, bufc + 1, {"remark", "eol"}))
    BY <1>2, <2>4
  <2>7. bufc' = bufc + 1
    BY <1>3
  <2>8. text' = text /\ errs' = 0 /\ status' = "comment" /\ given' = given
    BY <1>1, <2>2
  <2> QED
    BY <2>5, <2>6, <2>7, <2>8, ArriveRemark
<1>4. CASE AtNext({"/"}) /\ Has(bufc + 1, "/") /\ bufc' = bufc + 2
  <2>1. /\ bufc \in 1..Len(text.chars) /\ text.chars[bufc] = "/" /\ text.parts[bufc] \in Starts
        /\ given = Nth(text, bufc - 1) /\ errs = 0
    BY <1>4, Found
  <2>2. bufc + 1 \in 1..Len(text.chars) /\ text.chars[bufc + 1] = "/"
    BY <1>2, <1>4 DEF Has
  <2>3. text.parts[bufc] = "slash"
    <3>1. text.parts[bufc] \in {"div", "slash", "blk"}
      BY <1>2, <2>1, StartPart
    <3>2. At(text, bufc + 1, {"/", "*"})
      BY <1>2, <2>2 DEF At
    <3> QED
      BY <1>2, <2>1, <2>2, <3>1, <3>2, SlashPart
  <2>4. text.parts[bufc + 1] = "slash2"
    BY <1>2, <2>1, <2>3, SlashPart DEF Is
  <2> DEFINE k == bufc + 1
  <2>5. k \in 1..Len(text.chars) /\ text.parts[k] = "slash2" /\ k - 1 = bufc /\ bufc' = k + 1 /\ (k + 1) - 1 = k
    BY <1>2, <1>4, <2>2, <2>4
  <2> HIDE DEF k
  <2>6. k = Len(text.chars) \/ Is(text, k + 1, {"remark", "eol"})
    BY <1>2, <2>5, RemarkGoes
  <2>7. Nth(text, k) = Nth(text, bufc)
    BY <1>2, <2>5, RemarkGoes
  <2>8. Nth(text, bufc) = given
    BY <1>2, <2>1, <2>3, NthStays DEF Heads
  <2>9. k + 1 = bufe \/ Is(text, k + 1, {"remark", "eol"})
    BY <1>2, <2>5, <2>6
  <2>10. text' = text /\ errs' = 0 /\ status' = "comment" /\ given' = given
    BY <1>1, <2>1
  <2> QED
    BY <2>5, <2>7, <2>8, <2>9, <2>10, ArriveRemark
<1> QED
  BY <1>1, <1>3, <1>4

LEMMA EatCommentReads == ASSUME IInv, LexInv, text.plain, EatComment
                         PROVE  LexInv'
<1>1. /\ status = "comment" /\ text' = text /\ errs' = errs /\ given' = given
      /\ IF bufc >= bufe \/ HasOf(bufc, Ends) THEN bufc' = bufc + 0 /\ status' = "next"
                                              ELSE bufc' = bufc + 1 /\ status' = "comment"
  BY DEF EatComment, fixed, Skip, Loop
<1>2. errs = 0 /\ given = Nth(text, bufc - 1) /\ (bufc = bufe \/ Is(text, bufc, {"remark", "eol"}))
  BY <1>1 DEF LexInv, InRemark
<1>3. text \in Texts /\ Len(text.chars) \in Nat /\ bufc \in Nat /\ bufe = Len(text.chars) + 1
      /\ DOMAIN text.chars = 1..Len(text.chars) /\ buf = text.chars /\ bufc <= Len(text.chars) + 1
  BY <1>1, Standing
<1>4. bufc < bufe => /\ bufc \in 1..Len(text.chars) /\ text.parts[bufc] \in {"remark", "eol"}
                     /\ Fits(text.parts[bufc], text.chars[bufc])
  BY <1>2, <1>3, PartChars DEF Is
<1>5. CASE bufc >= bufe \/ HasOf(bufc, Ends)
  <2>1. Opens(text, bufc)
    <3>1. CASE bufc >= bufe
      BY <1>3, <3>1 DEF Opens
    <3>2. CASE HasOf(bufc, Ends)
      <4>1. bufc < bufe /\ text.chars[bufc] \in Ends
        BY <1>3, <3>2 DEF HasOf
      <4>2. text.parts[bufc] = "eol"
        BY <1>4, <4>1 DEF Fits
      <4> QED
        BY <1>3, <1>4, <4>1, <4>2 DEF Opens, Is, Starts
    <3> QED
      BY <1>5, <3>1, <3>2
  <2>2. bufc' = bufc
    BY <1>1, <1>3, <1>5
  <2> QED
    BY <1>1, <1>2, <1>5, <2>1, <2>2, ArriveNext
<1>6. CASE ~(bufc >= bufe \/ HasOf(bufc, Ends))
  <2>1. bufc < bufe /\ text.chars[bufc] \notin Ends
    BY <1>3, <1>6 DEF HasOf
  <2>2. text.parts[bufc] = "remark" /\ bufc \in 1..Len(text.chars)
    BY <1>4, <2>1 DEF Fits
  <2>3. /\ bufc = Len(text.chars) \/ Is(text, bufc + 1, {"remark", "eol"})
        /\ Nth(text, bufc) = Nth(text, bufc - 1)
    BY <1>3, <2>2, RemarkGoes
  <2>4. bufc' = bufc + 1
    BY <1>1, <1>6
  <2>5. (bufc + 1) - 1 = bufc /\ (bufc + 1 = bufe \/ Is(text, bufc + 1, {"remark", "eol"}))
    BY <1>3, <2>3
  <2> QED
    BY <1>1, <1>2, <1>6, <2>3, <2>4, <2>5, ArriveRemark
<1> QED
  BY <1>5, <1>6

LEMMA BlockCommentReads == ASSUME IInv, LexInv, text.plain, BlockComment
                           PROVE  LexInv'
<1>1. /\ text' = text /\ errs' = errs /\ status' = "block" /\ given' = given
      /\ AtNext({"/"}) /\ Has(bufc + 1, "*") /\ bufc' = bufc + 2
  BY DEF BlockComment, fixed, Loop, Skip
<1>2. /\ bufc \in 1..Len(text.chars) /\ text.chars[bufc] = "/" /\ text.parts[bufc] \in Starts
      /\ status = "next" /\ given = Nth(text, bufc - 1) /\ errs = 0
  BY <1>1, Found
<1>3. text \in Texts /\ Len(text.chars) \in Nat /\ bufc \in Nat /\ bufe = Len(text.chars) + 1
      /\ DOMAIN text.chars = 1..Len(text.chars) /\ buf = text.chars
  BY Standing
<1>4. bufc + 1 \in 1..Len(text.chars) /\ text.chars[bufc + 1] = "*"
  BY <1>1, <1>3 DEF Has
<1>5. text.parts[bufc] = "blk"
  <2>1. text.parts[bufc] \in {"div", "slash", "blk"}
    BY <1>2, <1>3, StartPart
  <2>2. At(text, bufc + 1, {"/", "*"})
    BY <1>3, <1>4 DEF At
  <2> QED
    BY <1>2, <1>3, <1>4, <2>1, <2>2, SlashPart
<1>6. text.parts[bufc + 1] = "blk2"
  BY <1>2, <1>3, <1>5, SlashPart DEF Is
<1> DEFINE k == bufc + 1
<1>7. k \in 1..Len(text.chars) /\ text.parts[k] = "blk2" /\ k - 1 = bufc /\ bufc' = k + 1 /\ (k + 1) - 1 = k
  BY <1>1, <1>3, <1>4, <1>6
<1> HIDE DEF k
<1>8. Is(text, k + 1, {"inner", "end"}) /\ Nth(text, k) = Nth(text, bufc)
  BY <1>3, <1>7, BlockGoes
<1>9. Nth(text, bufc) = given
  BY <1>2, <1>3, <1>5, NthStays DEF Heads
<1> QED
  BY <1>1, <1>2, <1>7, <1>8, <1>9, ArriveBlock

LEMMA EatBlockReads == ASSUME IInv, LexInv, text.plain, EatBlock
                       PROVE  LexInv'
<1>1. /\ status = "block" /\ text' = text /\ errs' = errs /\ given' = given
      /\ IF Has(bufc, "*") /\ Has(bufc + 1, "/") THEN bufc' = bufc + 2 /\ status' = "next"
         ELSE status' = "block" /\ bufc' = IF Has(bufc, "CR") THEN PastEnd(bufc) ELSE bufc + 1
  BY DEF EatBlock, fixed, Skip, NewLine, Loop
<1>2. errs = 0 /\ given = Nth(text, bufc - 1) /\ Is(text, bufc, {"inner", "end"})
  BY <1>1 DEF LexInv, InBlock
<1>3. text \in Texts /\ Len(text.chars) \in Nat /\ bufc \in Nat /\ bufe = Len(text.chars) + 1
      /\ DOMAIN text.chars = 1..Len(text.chars) /\ buf = text.chars
  BY Standing
<1>4. /\ bufc \in 1..Len(text.chars) /\ text.parts[bufc] \in {"inner", "end"}
      /\ text.parts[bufc] = "end" => /\ text.chars[bufc] = "*" /\ At(text, bufc + 1, {"/"})
                                     /\ Opens(text, bufc + 2)
                                     /\ Nth(text, bufc + 1) = Nth(text, bufc - 1)
      /\ text.parts[bufc] = "inner" => ~(text.chars[bufc] = "*" /\ At(text, bufc + 1, {"/"}))
  BY <1>2, <1>3, BlockEnds DEF Is
<1>5. Has(bufc, "*") /\ Has(bufc + 1, "/") <=> text.chars[bufc] = "*" /\ At(text, bufc + 1, {"/"})
  BY <1>3, <1>4 DEF Has, At
<1>6. CASE Has(bufc, "*") /\ Has(bufc + 1, "/")
  <2>1. text.parts[bufc] = "end"
    BY <1>4, <1>5, <1>6
  <2>2. bufc' = bufc + 2 /\ (bufc + 2) - 1 = bufc + 1
    BY <1>1, <1>3, <1>6
  <2>3. Opens(text, bufc + 2) /\ Nth(text, bufc + 1) = given
    BY <1>2, <1>4, <2>1
  <2> QED
    BY <1>1, <1>2, <1>6, <2>2, <2>3, ArriveNext
<1>7. CASE ~(Has(bufc, "*") /\ Has(bufc + 1, "/"))
  <2>1. text.parts[bufc] = "inner"
    BY <1>4, <1>5, <1>7
  <2>2. Is(text, bufc + 1, {"inner", "end"}) /\ Nth(text, bufc) = given
    BY <1>2, <1>3, <1>4, <2>1, BlockGoes
  <2>3. CASE bufc' = bufc + 1
    <3>1. (bufc + 1) - 1 = bufc
      BY <1>3
    <3> QED
      BY <1>1, <1>2, <1>7, <2>2, <2>3, <3>1, ArriveBlock
  <2>4. CASE bufc' # bufc + 1
    <3>1. Has(bufc, "CR") /\ bufc' = PastEnd(bufc)
      BY <1>1, <1>7, <2>4
    <3>2. Has(bufc + 1, "LF") /\ bufc' = bufc + 2
      BY <2>4, <3>1 DEF PastEnd
    <3> DEFINE k == bufc + 1
    <3>3. k \in 1..Len(text.chars) /\ text.chars[k] = "LF" /\ k - 1 = bufc /\ bufc' = k + 1 /\ (k + 1) - 1 = k
          /\ Is(text, k, {"inner", "end"})
      BY <1>3, <2>2, <3>2 DEF Has
    <3> HIDE DEF k
    <3>4. text.parts[k] = "inner"
      BY <1>3, <3>3, BlockEnds DEF Is
    <3>5. Is(text, k + 1, {"inner", "end"}) /\ Nth(text, k) = Nth(text, bufc)
      BY <1>3, <3>3, <3>4, BlockGoes
    <3> QED
      BY <1>1, <1>2, <1>7, <2>2, <3>3, <3>5, ArriveBlock
  <2> QED
    BY <2>3, <2>4
<1> QED
  BY <1>6, <1>7

LEMMA SoleAt ==
  ASSUME NEW x \in Texts, x.plain, NEW i \in 1..Len(x.chars)
  PROVE  /\ x.parts[i] = "eol"  => TokenAt(x, i).type = "LNEND"
         /\ x.parts[i] = "mark" => TokenAt(x, i).type = Marks[x.chars[i]]
         /\ x.parts[i] = "div"  => TokenAt(x, i).type = "DIV"
         /\ x.parts[i] = "rar"  => TokenAt(x, i).type = "RAR"
<1>1. x.parts[i] \in {"eol", "mark", "div", "rar"} => Sole(x, i)
  BY SyntaxAssumption, PlainText
<1>2. CASE x.parts[i] = "eol"
  BY <1>1, <1>2 DEF Sole
<1>3. CASE x.parts[i] = "mark"
  BY <1>1, <1>3 DEF Sole
<1>4. CASE x.parts[i] = "div"
  BY <1>1, <1>4 DEF Sole
<1>5. CASE x.parts[i] = "rar"
  BY <1>1, <1>5 DEF Sole
<1> QED
  BY <1>2, <1>3, <1>4, <1>5

LEMMA HeadParts == {"eol", "mark", "div", "rar", "first", "digit", "open"} \subseteq Heads
  BY DEF Heads

LEMMA LineEndReads == ASSUME IInv, LexInv, text.plain, LineEnd
                      PROVE  LexInv'
<1>1. /\ text' = text /\ errs' = errs /\ status' = "idle" /\ given' = given + 1
      /\ AtNext(Ends) /\ bufc' = PastEnd(bufc) /\ tk' = [NoToken EXCEPT !.type = "LNEND"]
  BY DEF LineEnd, fixed, NewLine, Single, Give
<1>2. /\ bufc \in 1..Len(text.chars) /\ text.chars[bufc] \in Ends /\ text.parts[bufc] \in Starts
      /\ given = Nth(text, bufc - 1) /\ errs = 0
      /\ Nth(text, bufc) = given + (IF text.parts[bufc] \in Heads THEN 1 ELSE 0)
  BY <1>1, Found
<1>3. text \in Texts /\ Len(text.chars) \in Nat /\ bufc \in Nat /\ bufe = Len(text.chars) + 1
      /\ DOMAIN text.chars = 1..Len(text.chars) /\ buf = text.chars /\ given \in Nat
  BY Standing
<1>4. text.parts[bufc] = "eol"
  BY <1>2, <1>3, StartPart
<1>5. given' = Nth(text, bufc)
  BY <1>1, <1>2, <1>4, HeadParts
<1>6. Opens(text, bufc') /\ Nth(text, bufc' - 1) = Nth(text, bufc)
  <2>1. Parted(text, bufc) /\ Is(text, bufc, {"eol"})
    BY <1>2, <1>3, <1>4, PlainText DEF Follow, Is
  <2>2. CASE text.chars[bufc] = "CR" /\ Has(bufc + 1, "LF")
    <3>1. Is(text, bufc + 1, {"lf"})
      BY <1>3, <2>1, <2>2 DEF Parted, Has, At
    <3> DEFINE k == bufc + 1
    <3>2. k \in 1..Len(text.chars) /\ text.parts[k] = "lf" /\ k - 1 = bufc /\ k + 1 = bufc + 2 /\ (k + 1) - 1 = k
      BY <1>3, <3>1 DEF Is
    <3> HIDE DEF k
    <3>3. Nth(text, k) = Nth(text, bufc)
      BY <1>3, <3>2, NthStays DEF Heads
    <3>4. bufc' = k + 1
      BY <1>1, <1>3, <2>2, <3>2 DEF PastEnd
    <3> QED
      BY <1>3, <3>2, <3>3, <3>4, Over
  <2>3. CASE ~(text.chars[bufc] = "CR" /\ Has(bufc + 1, "LF"))
    <3>1. ~Is(text, bufc + 1, {"lf"})
      BY <1>2, <1>3, <2>1, <2>3 DEF Parted, Has, At, Ends, Is
    <3>2. bufc' = bufc + 1 /\ (bufc + 1) - 1 = bufc
      BY <1>1, <1>3, <2>3 DEF PastEnd
    <3>3. Opens(text, bufc + 1)
      <4>1. CASE bufc = Len(text.chars)
        BY <4>1 DEF Opens
      <4>2. CASE bufc # Len(text.chars)
        <5>1. bufc + 1 \in 1..Len(text.chars)
          BY <1>2, <1>3, <4>2
        <5>2. text.parts[bufc + 1] \in Starts \cup {"lf"}
          BY <1>2, <1>3, <1>4, <5>1, PartAfter
        <5> QED
          BY <1>3, <3>1, <5>1, <5>2 DEF Opens, Is
      <4> QED
        BY <4>1, <4>2
    <3> QED
      BY <3>2, <3>3
  <2> QED
    BY <2>2, <2>3
<1>7. TokenAt(text, bufc).type = "LNEND"
  BY <1>2, <1>3, <1>4, SoleAt
<1>8. PICK t : t = tk'
  OBVIOUS
<1>9. t.type = "LNEND"
  BY <1>1, <1>8 DEF NoToken
<1>10. errs' = 0 /\ text' = text /\ status' = "idle"
  BY <1>1, <1>2
<1> QED
  BY <1>5, <1>6, <1>7, <1>8, <1>9, <1>10, GivesSole

LEMMA MarkReads == ASSUME IInv, LexInv, text.plain, Mark
                   PROVE  LexInv'
<1>1. /\ text' = text /\ errs' = errs /\ status' = "idle" /\ given' = given + 1
      /\ AtNext(DOMAIN Marks) /\ bufc' = bufc + 1 /\ tk' = [NoToken EXCEPT !.type = Marks[buf[bufc]]]
  BY DEF Mark, fixed, Skip, Single, Give
<1>2. /\ bufc \in 1..Len(text.chars) /\ text.chars[bufc] \in DOMAIN Marks /\ text.parts[bufc] \in Starts
      /\ given = Nth(text, bufc - 1) /\ errs = 0
      /\ Nth(text, bufc) = given + (IF text.parts[bufc] \in Heads THEN 1 ELSE 0)
  BY <1>1, Found
<1>3. text \in Texts /\ bufc \in Nat /\ buf = text.chars /\ given \in Nat /\ (bufc + 1) - 1 = bufc
  BY Standing
<1>4. text.parts[bufc] = "mark"
  BY <1>2, <1>3, StartPart
<1>5. given' = Nth(text, bufc)
  BY <1>1, <1>2, <1>4, HeadParts
<1>6. Opens(text, bufc + 1)
  BY <1>2, <1>3, <1>4, Over
<1>7. TokenAt(text, bufc).type = Marks[text.chars[bufc]]
  BY <1>2, <1>3, <1>4, SoleAt
<1>8. PICK t : t = tk'
  OBVIOUS
<1>9. t.type = Marks[text.chars[bufc]]
  BY <1>1, <1>3, <1>8 DEF NoToken
<1>10. Marks[text.chars[bufc]] \notin {"KEY", "LABEL", "NUM", "STR"}
  BY <1>2 DEF Marks
<1>11. errs' = 0 /\ text' = text /\ status' = "idle" /\ bufc' = bufc + 1
  BY <1>1, <1>2
<1> QED
  BY <1>3, <1>5, <1>6, <1>7, <1>8, <1>9, <1>10, <1>11, GivesSole

LEMMA SlashReads == ASSUME IInv, LexInv, text.plain, Slash
                    PROVE  LexInv'
<1>1. /\ text' = text /\ errs' = errs /\ status' = "idle" /\ given' = given + 1
      /\ AtNext({"/"}) /\ ~HasOf(bufc + 1, {"/", "*"}) /\ bufc' = bufc + 1
      /\ tk' = [NoToken EXCEPT !.type = "DIV"]
  BY DEF Slash, fixed, Skip, Single, Give
<1>2. /\ bufc \in 1..Len(text.chars) /\ text.chars[bufc] = "/" /\ text.parts[bufc] \in Starts
      /\ given = Nth(text, bufc - 1) /\ errs = 0
      /\ Nth(text, bufc) = given + (IF text.parts[bufc] \in Heads THEN 1 ELSE 0)
  BY <1>1, Found
<1>3. text \in Texts /\ bufc \in Nat /\ buf = text.chars /\ given \in Nat /\ (bufc + 1) - 1 = bufc
      /\ DOMAIN text.chars = 1..Len(text.chars) /\ bufe = Len(text.chars) + 1 /\ Len(text.chars) \in Nat
  BY Standing
<1>4. text.parts[bufc] = "div"
  <2>1. text.parts[bufc] \in {"div", "slash", "blk"}
    BY <1>2, <1>3, StartPart
  <2>2. \A c \in {"/", "*"} : ~(bufc + 1 \in 1..Len(text.chars) /\ text.chars[bufc + 1] = c)
    BY <1>1, <1>3 DEF HasOf
  <2> QED
    BY <1>2, <1>3, <2>1, <2>2, SlashPart DEF Is
<1>5. given' = Nth(text, bufc)
  BY <1>1, <1>2, <1>4, HeadParts
<1>6. Opens(text, bufc + 1)
  BY <1>2, <1>3, <1>4, Over
<1>7. TokenAt(text, bufc).type = "DIV"
  BY <1>2, <1>3, <1>4, SoleAt
<1>8. PICK t : t = tk'
  OBVIOUS
<1>9. t.type = "DIV"
  BY <1>1, <1>3, <1>8 DEF NoToken
<1>10. errs' = 0 /\ text' = text /\ status' = "idle" /\ bufc' = bufc + 1
  BY <1>1, <1>2
<1> QED
  BY <1>3, <1>5, <1>6, <1>7, <1>8, <1>9, <1>10, GivesSole

LEMMA ShiftReads == ASSUME IInv, LexInv, text.plain, Shift
                    PROVE  LexInv'
<1>1. /\ text' = text /\ errs' = errs /\ status' = "idle" /\ given' = given + 1
      /\ AtNext({">"}) /\ bufc' = bufc + 2 /\ tk' = [NoToken EXCEPT !.type = "RAR"]
  BY DEF Shift, fixed, Skip, Single, Give
<1>2. /\ bufc \in 1..Len(text.chars) /\ text.chars[bufc] = ">" /\ text.parts[bufc] \in Starts
      /\ given = Nth(text, bufc - 1) /\ errs = 0
      /\ Nth(text, bufc) = given + (IF text.parts[bufc] \in Heads THEN 1 ELSE 0)
  BY <1>1, Found
<1>3. text \in Texts /\ bufc \in Nat /\ buf = text.chars /\ given \in Nat
      /\ DOMAIN text.chars = 1..Len(text.chars)
  BY Standing
<1>4. text.parts[bufc] = "rar"
  BY <1>2, <1>3, StartPart
<1>5. given' = Nth(text, bufc)
  BY <1>1, <1>2, <1>4, HeadParts
<1> DEFINE k == bufc + 1
<1>6. k \in 1..Len(text.chars) /\ text.parts[k] = "rar2" /\ k - 1 = bufc /\ (k + 1) - 1 = k /\ bufc' = k + 1
  <2>1. bufc + 1 \in 1..Len(text.chars)
    BY <1>2, <1>3, <1>4, LastPart
  <2>2. text.parts[bufc + 1] = "rar2"
    BY <1>2, <1>3, <1>4, <2>1, PartAfter
  <2> QED
    BY <1>1, <1>3, <2>1, <2>2
<1> HIDE DEF k
<1>7. Opens(text, k + 1)
  BY <1>3, <1>6, Over
<1>8. Nth(text, k) = Nth(text, bufc)
  BY <1>3, <1>6, NthStays DEF Heads
<1>9. TokenAt(text, bufc).type = "RAR"
  BY <1>2, <1>3, <1>4, SoleAt
<1>10. PICK t : t = tk'
  OBVIOUS
<1>11. t.type = "RAR"
  BY <1>1, <1>3, <1>10 DEF NoToken
<1>12. errs' = 0 /\ text' = text /\ status' = "idle"
  BY <1>1, <1>2
<1> QED
  BY <1>5, <1>6, <1>7, <1>8, <1>9, <1>10, <1>11, <1>12, GivesSole

(* What no plain text comes to.                                              *)
LEMMA NeverInvalid == ASSUME IInv, LexInv, text.plain
                      PROVE  ~Invalid /\ ~OpenAtEnd /\ ~Unterminated /\ ~EndOfBlock
<1>1. text \in Texts /\ bufc \in Nat /\ buf = text.chars /\ Len(text.chars) \in Nat
      /\ DOMAIN text.chars = 1..Len(text.chars) /\ bufe = Len(text.chars) + 1
  BY Standing
<1>2. ~Invalid
  <2>1. ~AtNext({"bad", "\\"})
    BY <1>1, Found, StartPart
  <2>2. ASSUME AtNext({">"}), ~Has(bufc + 1, ">") PROVE FALSE
    <3>1. bufc \in 1..Len(text.chars) /\ text.chars[bufc] = ">" /\ text.parts[bufc] \in Starts
      BY <2>2, Found
    <3>2. text.parts[bufc] = "rar"
      BY <1>1, <3>1, StartPart
    <3>3. bufc + 1 \in 1..Len(text.chars) /\ text.chars[bufc + 1] = ">"
      BY <1>1, <3>1, <3>2, SlashPart DEF Is
    <3> QED
      BY <1>1, <2>2, <3>3 DEF Has
  <2> QED
    BY <2>1, <2>2 DEF Invalid
<1>3. ~OpenAtEnd
  <2>1. ASSUME AtNext(Quotes), bufc + 1 = bufe PROVE FALSE
    <3>1. bufc \in 1..Len(text.chars) /\ text.chars[bufc] \in Quotes /\ text.parts[bufc] \in Starts
      BY <2>1, Found
    <3>2. text.parts[bufc] = "open"
      BY <1>1, <3>1, StartPart
    <3>3. bufc + 1 \in 1..Len(text.chars)
      BY <1>1, <3>1, <3>2, LastPart
    <3> QED
      BY <1>1, <2>1, <3>3
  <2> QED
    BY <2>1 DEF OpenAtEnd
<1>4. ~Unterminated
  <2>1. status = "str" => Is(text, bufc, Strokes)
    BY DEF LexInv, InStr, Hears, Heard
  <2> QED
    BY <1>1, <2>1 DEF Unterminated, Is
<1>5. ~EndOfBlock
  <2>1. status = "block" => Is(text, bufc, {"inner", "end"})
    BY DEF LexInv, InBlock
  <2> QED
    BY <1>1, <2>1 DEF EndOfBlock, Is
<1> QED
  BY <1>2, <1>3, <1>4, <1>5

LEMMA AlphaReads == ASSUME IInv, LexInv, text.plain, Fresh, Alpha
                    PROVE  LexInv'
<1>1. /\ text' = text /\ errs' = errs /\ status' = "alpha" /\ given' = given /\ bufc' = bufc
      /\ AtNext(Letters \cup {"_", "$"}) /\ tk' = [tk EXCEPT !.type = "KEY", !.key = bufc]
  BY DEF Alpha, fixed, place, Loop
<1>2. /\ bufc \in 1..Len(text.chars) /\ text.chars[bufc] \in Letters \cup {"_", "$"}
      /\ text.parts[bufc] \in Starts /\ status = "next" /\ given = Nth(text, bufc - 1) /\ errs = 0
      /\ Nth(text, bufc) = given + (IF text.parts[bufc] \in Heads THEN 1 ELSE 0)
  BY <1>1, Found
<1>3. text \in Texts /\ bufc \in Nat /\ DOMAIN text.chars = 1..Len(text.chars)
  BY Standing
<1>4. text.parts[bufc] = "first"
  BY <1>2, <1>3, StartPart
<1>5. given' + 1 = Nth(text, bufc)
  BY <1>1, <1>2, <1>4, HeadParts
<1>6. Is(text, bufc, {"first"}) /\ Run(text, bufc + 1, bufc - 1, {"more"})
  <2>1. bufc \in 1..Len(text.chars)
    BY <1>2
  <2> QED
    BY <1>3, <1>4, <2>1 DEF Is, Run
<1>7. tk = NoToken
  BY <1>2 DEF Fresh
<1>8. tk'.type = "KEY" /\ ~tk'.local /\ tk'.key = bufc
  BY <1>1, <1>7 DEF NoToken
<1>9. errs' = 0 /\ text' = text /\ status' = "alpha" /\ Run(text, bufc + 1, bufc' - 1, {"more"})
  BY <1>1, <1>2, <1>6
<1>10. PICK a : a = bufc
  OBVIOUS
<1> QED
  BY <1>5, <1>6, <1>8, <1>9, <1>10, ArriveName

(* Where a name or a number stands that is being read.                       *)
LEMMA Reading ==
  ASSUME IInv, LexInv, text.plain, status \in {"alpha", "num"}
  PROVE  /\ text \in Texts /\ errs = 0 /\ tk.key \in Nat /\ ~tk.local /\ buf = text.chars
         /\ tk.key \in 1..Len(text.chars) /\ bufc \in tk.key..(Len(text.chars) + 1)
         /\ given \in Nat /\ given + 1 = Nth(text, tk.key) /\ bufc \in Nat
         /\ status = "alpha" => tk.type = "KEY" /\ Is(text, tk.key, {"first"})
                                /\ Run(text, tk.key + 1, bufc - 1, {"more"})
         /\ status = "num"   => tk.type = "NUM" /\ Is(text, tk.key, {"digit"})
                                /\ Run(text, tk.key + 1, bufc - 1, {"digits"})
<1>1. text \in Texts /\ errs = 0 /\ InName /\ InNum
  BY DEF LexInv
<1>2. /\ bufc \in Nat /\ buf = text.chars /\ Len(text.chars) \in Nat /\ bufc <= Len(text.chars) + 1
      /\ DOMAIN text.chars = 1..Len(text.chars) /\ given \in Nat
  BY Standing
<1>3. tk.key \in 1..bufc
  BY DEF IInv, Begun
<1>4. Is(text, tk.key, {"first"}) \/ Is(text, tk.key, {"digit"})
  BY <1>1 DEF InName, InNum, Reads
<1>5. tk.key \in 1..Len(text.chars) /\ tk.key \in Nat /\ bufc \in tk.key..(Len(text.chars) + 1)
  BY <1>2, <1>3, <1>4 DEF Is
<1>6. ~tk.local /\ given + 1 = Nth(text, tk.key)
  BY <1>1 DEF InName, InNum, Reads
<1> QED
  BY <1>1, <1>2, <1>5, <1>6 DEF InName, InNum, Reads

LEMMA AlphaMoreReads == ASSUME IInv, LexInv, text.plain, AlphaMore
                        PROVE  LexInv'
<1>1. /\ status = "alpha" /\ text' = text /\ errs' = errs /\ status' = "alpha" /\ given' = given
      /\ tk' = tk /\ bufc' = bufc + 1 /\ HasOf(bufc, NameChar)
  BY DEF AlphaMore, fixed, Skip
<1>2. PICK a : a = tk.key
  OBVIOUS
<1>3. /\ text \in Texts /\ errs = 0 /\ ~tk.local /\ tk.type = "KEY" /\ buf = text.chars
      /\ bufc \in a..(Len(text.chars) + 1) /\ bufc \in Nat
      /\ given + 1 = Nth(text, a) /\ Is(text, a, {"first"}) /\ Run(text, a + 1, bufc - 1, {"more"})
  BY <1>1, <1>2, Reading
<1>4. At(text, bufc, NameChar)
  <2>1. bufc \in DOMAIN text.chars
    BY <1>1, <1>3, Standing DEF HasOf
  <2> QED
    BY <1>1, <1>3, <2>1 DEF At, HasOf
<1>5. Run(text, a + 1, bufc, {"more"})
  BY <1>3, <1>4, NameGoes
<1>6. (bufc + 1) - 1 = bufc
  BY <1>3
<1>7. Run(text, a + 1, bufc' - 1, {"more"})
  BY <1>1, <1>5, <1>6
<1>8. a = tk'.key /\ tk'.type = "KEY" /\ ~tk'.local /\ errs' = 0 /\ given' + 1 = Nth(text, a)
  BY <1>1, <1>2, <1>3
<1> QED
  BY <1>1, <1>3, <1>7, <1>8, ArriveName

LEMMA AlphaEndReads == ASSUME IInv, LexInv, text.plain, AlphaEnd
                       PROVE  LexInv'
<1>1. /\ status = "alpha" /\ text' = text /\ errs' = errs /\ status' = "idle" /\ given' = given + 1
      /\ ~HasOf(bufc, NameChar)
      /\ IF Has(bufc, ":")
         THEN bufc' = bufc + 1 /\ tk' = [tk EXCEPT !.type = "LABEL", !.kend = bufc]
         ELSE bufc' = bufc + 0 /\ tk' = [tk EXCEPT !.type = Name(tk.key, bufc), !.kend = bufc]
  BY DEF AlphaEnd, fixed, Skip, Give
<1>2. PICK a : a = tk.key
  OBVIOUS
<1>3. /\ text \in Texts /\ errs = 0 /\ ~tk.local /\ tk.type = "KEY" /\ buf = text.chars
      /\ bufc \in a..(Len(text.chars) + 1) /\ bufc \in Nat /\ a \in Nat
      /\ given + 1 = Nth(text, a) /\ Is(text, a, {"first"}) /\ Run(text, a + 1, bufc - 1, {"more"})
  BY <1>1, <1>2, Reading
<1>4. /\ ~At(text, bufc, NameChar)
      /\ Has(bufc, ":") <=> At(text, bufc, {":"})
  <2>1. bufc \in DOMAIN text.chars <=> bufc < bufe
    BY <1>3, Standing
  <2> QED
    BY <1>1, <1>3, <2>1 DEF At, HasOf, Has
<1>5. tk \in [type : Types, key : 0..bufe, kend : Nat, local : BOOLEAN]
  BY DEF IInv, WithinText
<1>6. /\ TokenAt(text, a).says = SubSeq(text.chars, a, bufc - 1)
      /\ At(text, bufc, {":"}) => /\ TokenAt(text, a).type = "LABEL" /\ Opens(text, bufc + 1)
                                  /\ Nth(text, bufc) = Nth(text, a)
      /\ ~At(text, bufc, {":"}) =>
           /\ Opens(text, bufc) /\ Nth(text, bufc - 1) = Nth(text, a)
           /\ TokenAt(text, a).type = IF text.chars[a] = "$" /\ bufc = a + 1 THEN "DOLLAR"
                                      ELSE IF text.chars[a] = "$" /\ bufc = a + 2 /\ text.chars[a + 1] = "$"
                                      THEN "DDOLL" ELSE "KEY"
  BY <1>3, <1>4, NameSays
<1>7. given' = Nth(text, a) /\ errs' = 0 /\ text' = text /\ status' = "idle"
  BY <1>1, <1>3
<1>8. PICK t : t = tk'
  OBVIOUS
<1>9. CASE Has(bufc, ":")
  <2>1. t.type = "LABEL" /\ ~t.local /\ t.key = a /\ t.kend = bufc /\ bufc' = bufc + 1
    BY <1>1, <1>2, <1>3, <1>5, <1>8, <1>9
  <2>2. (bufc + 1) - 1 = bufc
    BY <1>3
  <2>3. /\ t.type = TokenAt(text, a).type /\ t.type # "STR" /\ Opens(text, bufc')
        /\ SubSeq(text.chars, t.key, t.kend - 1) = TokenAt(text, a).says
    BY <1>4, <1>6, <1>9, <2>1
  <2>4. given' = Nth(text, bufc' - 1)
    BY <1>4, <1>6, <1>7, <1>9, <2>1, <2>2
  <2> QED
    BY <1>7, <1>8, <2>1, <2>3, <2>4, GivesText
<1>10. CASE ~Has(bufc, ":")
  <2>1. t.type = Name(a, bufc) /\ ~t.local /\ t.key = a /\ t.kend = bufc /\ bufc' = bufc
    <3>1. bufc' = bufc + 0 /\ t = [tk EXCEPT !.type = Name(tk.key, bufc), !.kend = bufc]
      BY <1>1, <1>8, <1>10
    <3>2. t.type = Name(tk.key, bufc) /\ t.local = tk.local /\ t.key = tk.key /\ t.kend = bufc
      BY <1>5, <3>1
    <3>3. bufc + 0 = bufc
      BY <1>3
    <3> QED
      BY <1>2, <1>3, <3>1, <3>2, <3>3
  <2>2. /\ t.type = TokenAt(text, a).type /\ t.type # "STR"
    BY <1>3, <1>4, <1>6, <1>10, <2>1 DEF Name
  <2>3. /\ Opens(text, bufc')
        /\ SubSeq(text.chars, t.key, t.kend - 1) = TokenAt(text, a).says
    BY <1>4, <1>6, <1>10, <2>1
  <2>4. given' = Nth(text, bufc' - 1)
    BY <1>4, <1>6, <1>7, <1>10, <2>1
  <2> QED
    BY <1>7, <1>8, <2>1, <2>2, <2>3, <2>4, GivesText
<1> QED
  BY <1>9, <1>10

LEMMA NumReads == ASSUME IInv, LexInv, text.plain, Fresh, Num
                  PROVE  LexInv'
<1>1. /\ text' = text /\ errs' = errs /\ status' = "num" /\ given' = given /\ bufc' = bufc
      /\ AtNext(Digits) /\ tk' = [tk EXCEPT !.type = "NUM", !.key = bufc]
  BY DEF Num, fixed, place, Loop
<1>2. /\ bufc \in 1..Len(text.chars) /\ text.chars[bufc] \in Digits
      /\ text.parts[bufc] \in Starts /\ status = "next" /\ given = Nth(text, bufc - 1) /\ errs = 0
      /\ Nth(text, bufc) = given + (IF text.parts[bufc] \in Heads THEN 1 ELSE 0)
  BY <1>1, Found
<1>3. text \in Texts /\ bufc \in Nat /\ DOMAIN text.chars = 1..Len(text.chars)
  BY Standing
<1>4. text.parts[bufc] = "digit"
  BY <1>2, <1>3, StartPart
<1>5. given' + 1 = Nth(text, bufc)
  BY <1>1, <1>2, <1>4, HeadParts
<1>6. Is(text, bufc, {"digit"}) /\ Run(text, bufc + 1, bufc - 1, {"digits"})
  BY <1>2, <1>3, <1>4 DEF Is, Run
<1>7. tk = NoToken
  BY <1>2 DEF Fresh
<1>8. tk'.type = "NUM" /\ ~tk'.local /\ tk'.key = bufc
  BY <1>1, <1>7 DEF NoToken
<1>9. errs' = 0 /\ text' = text /\ status' = "num" /\ Run(text, bufc + 1, bufc' - 1, {"digits"})
  BY <1>1, <1>2, <1>6
<1>10. PICK a : a = bufc
  OBVIOUS
<1> QED
  BY <1>5, <1>6, <1>8, <1>9, <1>10, ArriveNum

LEMMA NumMoreReads == ASSUME IInv, LexInv, text.plain, NumMore
                      PROVE  LexInv'
<1>1. /\ status = "num" /\ text' = text /\ errs' = errs /\ status' = "num" /\ given' = given
      /\ tk' = tk /\ bufc' = bufc + 1 /\ NumChar(bufc)
  BY DEF NumMore, fixed, Skip
<1>2. PICK a : a = tk.key
  OBVIOUS
<1>3. /\ text \in Texts /\ errs = 0 /\ ~tk.local /\ tk.type = "NUM" /\ buf = text.chars
      /\ bufc \in a..(Len(text.chars) + 1) /\ bufc \in Nat
      /\ given + 1 = Nth(text, a) /\ Is(text, a, {"digit"}) /\ Run(text, a + 1, bufc - 1, {"digits"})
  BY <1>1, <1>2, Reading
<1>4. OneMore(text, a, bufc)
  <2>1. bufc \in DOMAIN text.chars <=> bufc < bufe
    BY <1>3, Standing
  <2> QED
    BY <1>1, <1>2, <1>3, <2>1 DEF OneMore, NumChar, dot_flag, At, HasOf, Has
<1>5. Run(text, a + 1, bufc, {"digits"})
  BY <1>3, <1>4, NumGoes
<1>6. (bufc + 1) - 1 = bufc
  BY <1>3
<1>7. Run(text, a + 1, bufc' - 1, {"digits"})
  BY <1>1, <1>5, <1>6
<1>8. a = tk'.key /\ tk'.type = "NUM" /\ ~tk'.local /\ errs' = 0 /\ given' + 1 = Nth(text, a)
  BY <1>1, <1>2, <1>3
<1> QED
  BY <1>1, <1>3, <1>7, <1>8, ArriveNum

LEMMA NumEndReads == ASSUME IInv, LexInv, text.plain, NumEnd
                     PROVE  LexInv'
<1>1. /\ status = "num" /\ text' = text /\ status' = "idle" /\ given' = given + 1
      /\ ~NumChar(bufc) /\ bufc' = bufc + (IF Has(bufc, "h") THEN 1 ELSE 0)
      /\ errs' = IF Has(bufc, ".") THEN errs + 1 ELSE errs
      /\ tk' = [tk EXCEPT !.kend = bufc']
  BY DEF NumEnd, fixed, Skip, Give
<1>2. PICK a : a = tk.key
  OBVIOUS
<1>3. /\ text \in Texts /\ errs = 0 /\ ~tk.local /\ tk.type = "NUM" /\ buf = text.chars
      /\ bufc \in a..(Len(text.chars) + 1) /\ bufc \in Nat /\ a \in Nat
      /\ given + 1 = Nth(text, a) /\ Is(text, a, {"digit"}) /\ Run(text, a + 1, bufc - 1, {"digits"})
  BY <1>1, <1>2, Reading
<1>4. /\ ~OneMore(text, a, bufc)
      /\ Has(bufc, "h") <=> At(text, bufc, {"h"})
      /\ Has(bufc, ".") <=> At(text, bufc, {"."})
  <2>1. bufc \in DOMAIN text.chars <=> bufc < bufe
    BY <1>3, Standing
  <2>2. ~OneMore(text, a, bufc)
    BY <1>1, <1>2, <1>3, <2>1 DEF OneMore, NumChar, dot_flag, At, HasOf, Has
  <2> QED
    BY <1>3, <2>1, <2>2 DEF At, Has
<1>5. PICK k : k = IF At(text, bufc, {"h"}) THEN bufc + 1 ELSE bufc
  OBVIOUS
<1>6. /\ TokenAt(text, a).type = "NUM" /\ TokenAt(text, a).says = SubSeq(text.chars, a, k - 1)
      /\ Opens(text, k) /\ Nth(text, k - 1) = Nth(text, a) /\ ~At(text, bufc, {"."})
  BY <1>3, <1>4, <1>5, NumSays
<1>7. bufc' = k
  BY <1>1, <1>3, <1>4, <1>5
<1>8. tk \in [type : Types, key : 0..bufe, kend : Nat, local : BOOLEAN]
  BY DEF IInv, WithinText
<1>9. PICK t : t = tk'
  OBVIOUS
<1>10. t.type = "NUM" /\ ~t.local /\ t.key = a /\ t.kend = k
  BY <1>1, <1>2, <1>3, <1>7, <1>8, <1>9
<1>11. given' = Nth(text, a) /\ errs' = 0 /\ text' = text /\ status' = "idle"
  BY <1>1, <1>3, <1>4, <1>6
<1>12. Opens(text, bufc') /\ given' = Nth(text, bufc' - 1)
  BY <1>6, <1>7, <1>11
<1>13. SubSeq(text.chars, t.key, t.kend - 1) = TokenAt(text, a).says /\ t.type = TokenAt(text, a).type
       /\ t.type # "STR"
  BY <1>6, <1>10
<1> QED
  BY <1>9, <1>10, <1>11, <1>12, <1>13, GivesText

LEMMA OpenStringReads == ASSUME IInv, LexInv, text.plain, Fresh, OpenString
                         PROVE  LexInv'
<1>1. /\ text' = text /\ errs' = errs /\ status' = "str" /\ given' = given /\ bufc' = bufc + 1
      /\ AtNext(Quotes) /\ tk' = [tk EXCEPT !.type = "STR", !.key = bufc']
      /\ cSep' = buf[bufc] /\ buff' = buff
  BY DEF OpenString, fixed, Skip, Loop
<1>2. /\ bufc \in 1..Len(text.chars) /\ text.chars[bufc] \in Quotes
      /\ text.parts[bufc] \in Starts /\ status = "next" /\ given = Nth(text, bufc - 1) /\ errs = 0
      /\ Nth(text, bufc) = given + (IF text.parts[bufc] \in Heads THEN 1 ELSE 0)
  BY <1>1, Found
<1>3. text \in Texts /\ bufc \in Nat /\ DOMAIN text.chars = 1..Len(text.chars) /\ buf = text.chars
  BY Standing
<1>4. text.parts[bufc] = "open"
  BY <1>2, <1>3, StartPart
<1>5. given' + 1 = Nth(text, bufc)
  BY <1>1, <1>2, <1>4, HeadParts
<1>6. Heard(text, bufc, bufc + 1, FALSE, buff)
  BY <1>2, <1>3, <1>4, HeardOpens
<1>7. tk = NoToken
  BY <1>2 DEF Fresh
<1>8. tk'.type = "STR" /\ tk'.local = FALSE /\ tk'.key = bufc + 1
  BY <1>1, <1>7 DEF NoToken
<1>9. PICK a : a = bufc
  OBVIOUS
<1>10. a = tk'.key - 1
  <2>1. (bufc + 1) - 1 = bufc
    BY <1>3
  <2> QED
    BY <1>8, <1>9, <2>1
<1>11. Hears(a)'
  <2>1. buf' = buf
    BY <1>1 DEF buf
  <2>2. Heard(text', a, bufc', tk'.local, buff')
    BY <1>1, <1>6, <1>8, <1>9
  <2>3. cSep' = buf'[a] /\ given' + 1 = Nth(text', a)
    BY <1>1, <1>5, <1>9, <2>1
  <2> QED
    BY <1>8, <2>2, <2>3 DEF Hears
<1>12. errs' = 0
  BY <1>1, <1>2
<1> QED
  BY <1>1, <1>10, <1>11, <1>12, ArriveStr

(* Where a string stands that is being read.                                 *)
LEMMA Hearing ==
  ASSUME IInv, LexInv, text.plain, status = "str"
  PROVE  /\ text \in Texts /\ errs = 0 /\ buf = text.chars /\ bufc \in Nat /\ tk.local \in BOOLEAN
         /\ tk.type = "STR" /\ cSep = text.chars[tk.key - 1] /\ cSep \in Quotes
         /\ given \in Nat /\ given + 1 = Nth(text, tk.key - 1)
         /\ Heard(text, tk.key - 1, bufc, tk.local, buff)
         /\ tk.key \in Nat /\ bufc \in 1..Len(text.chars) /\ Len(text.chars) \in Nat
         /\ \A n \in Nat : \A c : Has(n, c) <=> n < Len(text.chars) + 1 /\ text.chars[n] = c
         /\ \A n \in Nat : \A C : HasOf(n, C) <=> n < Len(text.chars) + 1 /\ text.chars[n] \in C
<1>1. text \in Texts /\ errs = 0 /\ Hears(tk.key - 1)
  BY DEF LexInv, InStr
<1>2. /\ bufc \in Nat /\ buf = text.chars /\ given \in Nat /\ bufe = Len(text.chars) + 1
      /\ DOMAIN text.chars = 1..Len(text.chars) /\ Len(text.chars) \in Nat
  BY Standing
<1>3. cSep \in Quotes /\ tk.local \in BOOLEAN
  BY DEF IInv, WithinText
<1>4. tk.key \in Nat
  BY <1>2 DEF IInv, Begun
<1>5. bufc \in 1..Len(text.chars)
  BY <1>1, <1>2 DEF Hears, Heard, Is
<1> QED
  BY <1>1, <1>2, <1>3, <1>4, <1>5 DEF Hears, Has, HasOf

(* The parts that the characters at bufc and behind it can be.               *)
LEMMA HearPart ==
  ASSUME IInv, LexInv, text.plain, status = "str"
  PROVE  /\ text.parts[bufc] \in {"char", "twin", "esc", "lone", "close"}
         /\ text.parts[bufc] = "char"  => ~Has(bufc, cSep) /\ ~Has(bufc, "\\")
         /\ text.parts[bufc] = "twin"  => Doubled /\ ~HasOf(bufc, Ends) /\ ~Has(bufc, "\\")
         /\ text.parts[bufc] = "close" => /\ Has(bufc, cSep) /\ ~Doubled /\ ~HasOf(bufc, Ends)
                                          /\ ~Has(bufc, "\\")
         /\ text.parts[bufc] = "esc"   => /\ Escape /\ HasOf(bufc + 1, {"r", "n", "t"})
                                          /\ ~Has(bufc, cSep) /\ ~HasOf(bufc, Ends)
                                          /\ text.parts[bufc + 1] = "esc2"
         /\ text.parts[bufc] = "lone"  => /\ Escape /\ ~HasOf(bufc + 1, {"r", "n", "t"})
                                          /\ ~Has(bufc, cSep) /\ ~HasOf(bufc, Ends)
<1>1. PICK a : a = tk.key - 1
  OBVIOUS
<1>2. PICK q : q = text.chars[a]
  OBVIOUS
<1>3. PICK ch : ch = text.chars[bufc]
  OBVIOUS
<1>4. PICK nx : nx = text.chars[bufc + 1]
  OBVIOUS
<1>5. /\ text \in Texts /\ bufc \in Nat /\ cSep = q /\ q \in Quotes
      /\ Is(text, a, {"open"}) /\ a < bufc /\ Run(text, a + 1, bufc - 1, Inside) /\ Is(text, bufc, Strokes)
      /\ bufc \in 1..Len(text.chars) /\ Len(text.chars) \in Nat /\ bufe = Len(text.chars) + 1
  <2>1. Heard(text, a, bufc, tk.local, buff)
    BY <1>1, Hearing
  <2> QED
    BY <1>1, <1>2, <2>1, Hearing, Standing DEF Heard
<1>6. /\ text.parts[bufc] = "char"  => ch # q /\ ch # "\\"
      /\ text.parts[bufc] = "twin"  => ch = q /\ nx = q
      /\ text.parts[bufc] = "close" => ch = q /\ ~At(text, bufc + 1, {q})
      /\ text.parts[bufc] = "esc"   => /\ ch = "\\" /\ text.parts[bufc + 1] = "esc2"
                                       /\ nx \in {"r", "n", "t"}
      /\ text.parts[bufc] = "lone"  => ch = "\\" /\ ~At(text, bufc + 1, {"r", "n", "t"})
      /\ text.parts[bufc] # "close" => bufc + 1 \in 1..Len(text.chars)
      /\ text.parts[bufc] \in {"char", "twin", "esc", "lone", "close"}
  BY <1>2, <1>3, <1>4, <1>5, StrPart
<1>7. /\ q # "\\" /\ q \notin Ends /\ "\\" \notin Ends
  BY <1>5 DEF Quotes, Ends
<1>8. /\ \A c : Has(bufc, c) <=> ch = c
      /\ \A C : HasOf(bufc, C) <=> ch \in C
      /\ \A c : Has(bufc + 1, c) <=> bufc + 1 \in 1..Len(text.chars) /\ nx = c
      /\ \A C : HasOf(bufc + 1, C) <=> bufc + 1 \in 1..Len(text.chars) /\ nx \in C
  <2>1. bufc < Len(text.chars) + 1 /\ bufc + 1 \in Nat
        /\ (bufc + 1 < Len(text.chars) + 1 <=> bufc + 1 \in 1..Len(text.chars))
    BY <1>5
  <2> QED
    BY <1>3, <1>4, <1>5, <2>1, Hearing
<1>9. \A C : At(text, bufc + 1, C) <=> bufc + 1 \in 1..Len(text.chars) /\ nx \in C
  BY <1>4, <1>5, Standing DEF At
<1>10. bufc + 1 \in 1..Len(text.chars) => bufc + 1 < bufe
  BY <1>5
<1>11. Doubled <=> Has(bufc, q) /\ Has(bufc + 1, q)
  BY <1>5 DEF Doubled
<1>12. Escape <=> Has(bufc, "\\") /\ bufc + 1 < bufe
  BY DEF Escape
<1>13. text.parts[bufc] = "char" => ~Has(bufc, cSep) /\ ~Has(bufc, "\\")
  BY <1>5, <1>6, <1>8
<1>14. text.parts[bufc] = "twin"  => Doubled /\ ~HasOf(bufc, Ends) /\ ~Has(bufc, "\\")
  BY <1>6, <1>7, <1>8, <1>11
<1>15. text.parts[bufc] = "close" => /\ Has(bufc, cSep) /\ ~Doubled /\ ~HasOf(bufc, Ends)
                                     /\ ~Has(bufc, "\\")
  BY <1>5, <1>6, <1>7, <1>8, <1>9, <1>11
<1>16. text.parts[bufc] = "esc"   => /\ Escape /\ HasOf(bufc + 1, {"r", "n", "t"})
                                     /\ ~Has(bufc, cSep) /\ ~HasOf(bufc, Ends)
                                     /\ text.parts[bufc + 1] = "esc2"
  BY <1>5, <1>6, <1>7, <1>8, <1>10, <1>12
<1>17. text.parts[bufc] = "lone"  => /\ Escape /\ ~HasOf(bufc + 1, {"r", "n", "t"})
                                     /\ ~Has(bufc, cSep) /\ ~HasOf(bufc, Ends)
  BY <1>5, <1>6, <1>7, <1>8, <1>9, <1>10, <1>12
<1> QED
  BY <1>6, <1>13, <1>14, <1>15, <1>16, <1>17

LEMMA CloseStringReads == ASSUME IInv, LexInv, text.plain, CloseString
                          PROVE  LexInv'
<1>1. /\ status = "str" /\ text' = text /\ errs' = errs /\ status' = "idle" /\ given' = given + 1
      /\ Has(bufc, cSep) /\ ~Doubled /\ bufc' = bufc + 1 /\ buff' = buff
      /\ tk' = [tk EXCEPT !.kend = IF tk.local THEN Len(buff) ELSE bufc]
  BY DEF CloseString, AtStr, fixed, string, Skip, Give
<1>2. PICK a : a = tk.key - 1
  OBVIOUS
<1>3. /\ text \in Texts /\ errs = 0 /\ buf = text.chars /\ bufc \in Nat /\ tk.local \in BOOLEAN
      /\ tk.type = "STR" /\ given + 1 = Nth(text, a) /\ Heard(text, a, bufc, tk.local, buff)
      /\ tk.key \in Nat /\ bufc \in 1..Len(text.chars)
  BY <1>1, <1>2, Hearing
<1>4. text.parts[bufc] = "close"
  BY <1>1, HearPart
<1>5. /\ TokenAt(text, a).type = "STR" /\ Opens(text, bufc + 1) /\ Nth(text, bufc) = Nth(text, a)
      /\ tk.local <=> TokenAt(text, a).escaped
      /\ tk.local => Kept(text, a, Len(TokenAt(text, a).says), buff)
      /\ ~tk.local => /\ Len(TokenAt(text, a).says) = bufc - 1 - a
                      /\ Stood(text, a, bufc - 1 - a)
  BY <1>3, <1>4, HeardCloses
<1>6. PICK says : says = TokenAt(text, a).says
  OBVIOUS
<1>7. a \in 1..Len(text.chars) /\ a \in Nat /\ a < bufc /\ Len(text.chars) \in Nat
  BY <1>3, HeardType
<1>8. says \in Seq(Chars)
  <2>1. a \in 0..Len(text.chars)
    BY <1>7
  <2>2. Nth(text, a) > 0
    BY <1>3, Standing
  <2>3. TokenAt(text, a) \in Token
    BY <1>3, <2>1, <2>2, NthBound DEF TokenAt
  <2> QED
    BY <1>6, <2>3 DEF Token
<1>9. PICK t : t = tk'
  OBVIOUS
<1>10. t.type = "STR" /\ t.local = tk.local /\ t.key = a + 1 /\ (~tk.local => t.kend = bufc)
  <2>1. tk \in [type : Types, key : 0..bufe, kend : Nat, local : BOOLEAN]
    BY DEF IInv, WithinText
  <2>2. a + 1 = tk.key
    BY <1>2, <1>3
  <2> QED
    BY <1>1, <1>3, <1>9, <2>1, <2>2
<1>11. PICK said : said = Said'
  OBVIOUS
<1>12. buf' = text.chars
  BY <1>1, <1>3 DEF buf
<1>13. said = (IF t.local THEN buff ELSE SubSeq(text.chars, a + 1, bufc - 1))
  BY <1>1, <1>9, <1>10, <1>11, <1>12 DEF Said
<1>14. Cut(TokenAt(text, a).says)' = IF t.local THEN SubSeq(says, 1, Min2(Len(says), Len(buff))) ELSE says
  BY <1>1, <1>6, <1>9 DEF Cut, TokenAt
<1>15. said = Cut(TokenAt(text, a).says)' /\ Len(said) >= Min2(Len(says), BufSize - 1)
  <2>1. CASE tk.local
    <3>1. buff = SubSeq(says, 1, Min2(Len(says), Len(buff))) /\ Len(buff) >= Min2(Len(says), BufSize - 1)
      BY <1>3, <1>5, <1>6, <1>8, <2>1, KeptSays
    <3> QED
      BY <1>10, <1>13, <1>14, <2>1, <3>1
  <2>2. CASE ~tk.local
    <3>1. bufc \in (a + 1)..Len(text.chars)
      BY <1>3, <1>7
    <3>2. SubSeq(text.chars, a + 1, bufc - 1) = says
      BY <1>3, <1>5, <1>6, <1>7, <1>8, <2>2, <3>1, StoodSays
    <3>3. Len(says) >= Min2(Len(says), BufSize - 1)
      BY <1>8, BufSizeAssumption DEF Min2
    <3> QED
      BY <1>10, <1>13, <1>14, <2>2, <3>2, <3>3
  <2> QED
    BY <2>1, <2>2
<1>16. given' = Nth(text, a) /\ errs' = 0 /\ text' = text /\ status' = "idle"
  BY <1>1, <1>3
<1>17. Opens(text, bufc') /\ given' = Nth(text, bufc' - 1)
  <2>1. (bufc + 1) - 1 = bufc
    BY <1>3
  <2> QED
    BY <1>1, <1>5, <1>16, <2>1
<1>18. t.local <=> TokenAt(text, a).escaped
  BY <1>5, <1>10
<1> QED
  BY <1>5, <1>6, <1>9, <1>10, <1>11, <1>15, <1>16, <1>17, <1>18, GivesStr

(* An escape was read, up to k: it is in tk->buff.                           *)
LEMMA ToLocalReads ==
  ASSUME IInv, LexInv, text.plain, status = "str", text' = text, errs' = errs, status' = status,
         given' = given, cSep' = cSep, NEW c \in Chars, ToLocal(c),
         NEW a, a = tk.key - 1, NEW k \in Nat, bufc' = k, bufc < k,
         Run(text, a + 1, k - 1, Inside), Is(text, k, Strokes), text.parts[bufc] \in Escapes,
         SaidTo(text, a, k - 1) = SaidTo(text, a, bufc - 1) + 1,
         TokenAt(text, a).says[SaidTo(text, a, bufc - 1) + 1] = c
  PROVE  LexInv'
<1>1. /\ text \in Texts /\ errs = 0 /\ buf = text.chars /\ tk.local \in BOOLEAN
      /\ tk.type = "STR" /\ cSep = text.chars[a] /\ given + 1 = Nth(text, a)
      /\ Heard(text, a, bufc, tk.local, buff) /\ tk.key \in Nat
  BY Hearing
<1>2. Heard(text, a, k, TRUE, Put(LocalOf(text, a, bufc, tk.local, buff), c))
  BY <1>1, HeardEscape
<1>3. Local = LocalOf(text, a, bufc, tk.local, buff)
  <2>1. a + 1 = tk.key
    BY <1>1
  <2> QED
    BY <1>1, <2>1 DEF Local, LocalOf
<1>4. tk'.type = "STR" /\ tk'.local = TRUE /\ tk'.key = tk.key
  <2>1. tk \in [type : Types, key : 0..bufe, kend : Nat, local : BOOLEAN]
    BY DEF IInv, WithinText
  <2>2. tk' = [tk EXCEPT !.local = TRUE]
    BY DEF ToLocal
  <2> QED
    BY <1>1, <2>1, <2>2
<1>5. buff' = Put(LocalOf(text, a, bufc, tk.local, buff), c)
  BY <1>3 DEF ToLocal
<1>6. Hears(a)'
  <2>1. buf' = text.chars
    BY <1>1 DEF buf
  <2>2. Heard(text', a, bufc', tk'.local, buff')
    BY <1>2, <1>4, <1>5
  <2>3. cSep' = buf'[a] /\ given' + 1 = Nth(text', a)
    BY <1>1, <2>1
  <2> QED
    BY <1>4, <2>2, <2>3 DEF Hears
<1>7. a = tk'.key - 1 /\ errs' = 0 /\ status' = "str"
  BY <1>1, <1>4
<1> QED
  BY <1>6, <1>7, ArriveStr

LEMMA DoubledQuoteReads == ASSUME IInv, LexInv, text.plain, DoubledQuote
                           PROVE  LexInv'
<1>1. /\ status = "str" /\ text' = text /\ errs' = errs /\ status' = status /\ given' = given
      /\ cSep' = cSep /\ Doubled /\ ToLocal(cSep) /\ bufc' = bufc + 2
  BY DEF DoubledQuote, AtStr, fixed, Skip
<1>2. PICK a : a = tk.key - 1
  OBVIOUS
<1>3. /\ text \in Texts /\ bufc \in Nat /\ tk.local \in BOOLEAN /\ cSep = text.chars[a] /\ cSep \in Quotes
      /\ Heard(text, a, bufc, tk.local, buff) /\ bufc \in 1..Len(text.chars)
  BY <1>1, <1>2, Hearing
<1>4. text.parts[bufc] = "twin"
  BY <1>1, HearPart DEF Doubled
<1>5. /\ Run(text, a + 1, bufc + 1, Inside) /\ Is(text, bufc + 2, Strokes)
      /\ SaidTo(text, a, bufc + 1) = SaidTo(text, a, bufc - 1) + 1
      /\ TokenAt(text, a).says[SaidTo(text, a, bufc - 1) + 1] = Speaks(text, bufc + 1)
  BY <1>3, <1>4, SaysPair
<1>6. Speaks(text, bufc + 1) = cSep
  <2>1. text.parts[bufc + 1] = "twin2" /\ text.chars[bufc + 1] = text.chars[a]
    <3>1. Is(text, a, {"open"}) /\ a < bufc /\ Run(text, a + 1, bufc - 1, Inside) /\ Is(text, bufc, Strokes)
      BY <1>3 DEF Heard
    <3> QED
      BY <1>3, <1>4, <3>1, StrPart
  <2> QED
    BY <1>3, <2>1 DEF Speaks
<1>7. PICK k : k = bufc + 2
  OBVIOUS
<1>8. k \in Nat /\ bufc' = k /\ bufc < k /\ k - 1 = bufc + 1
  BY <1>1, <1>3, <1>7
<1>9. Run(text, a + 1, k - 1, Inside) /\ Is(text, k, Strokes)
      /\ SaidTo(text, a, k - 1) = SaidTo(text, a, bufc - 1) + 1
  BY <1>5, <1>7, <1>8
<1>10. cSep \in Chars /\ text.parts[bufc] \in Escapes
  BY <1>3, <1>4 DEF Chars, Escapes, Inside
<1>11. TokenAt(text, a).says[SaidTo(text, a, bufc - 1) + 1] = cSep
  BY <1>5, <1>6
<1> QED
  BY <1>1, <1>2, <1>8, <1>9, <1>10, <1>11, ToLocalReads

LEMMA EscapeLetterReads == ASSUME IInv, LexInv, text.plain, EscapeLetter
                           PROVE  LexInv'
<1>1. /\ status = "str" /\ text' = text /\ errs' = errs /\ status' = status /\ given' = given
      /\ cSep' = cSep /\ Escape /\ HasOf(bufc + 1, {"r", "n", "t"}) /\ bufc' = bufc + 2
      /\ ToLocal(CASE buf[bufc + 1] = "r" -> "CR" [] buf[bufc + 1] = "n" -> "LF"
                   [] buf[bufc + 1] = "t" -> "sp")
  BY DEF EscapeLetter, AtStr, fixed, Skip
<1>2. PICK a : a = tk.key - 1
  OBVIOUS
<1>3. /\ text \in Texts /\ bufc \in Nat /\ tk.local \in BOOLEAN /\ buf = text.chars
      /\ Heard(text, a, bufc, tk.local, buff) /\ bufc \in 1..Len(text.chars)
  BY <1>1, <1>2, Hearing
<1>4. text.parts[bufc] = "esc"
  BY <1>1, HearPart DEF Escape, Doubled
<1>5. /\ Run(text, a + 1, bufc + 1, Inside) /\ Is(text, bufc + 2, Strokes)
      /\ SaidTo(text, a, bufc + 1) = SaidTo(text, a, bufc - 1) + 1
      /\ TokenAt(text, a).says[SaidTo(text, a, bufc - 1) + 1] = Speaks(text, bufc + 1)
  BY <1>3, <1>4, SaysPair
<1>6. PICK c : c = Speaks(text, bufc + 1)
  OBVIOUS
<1>7. text.parts[bufc + 1] = "esc2" /\ text.chars[bufc + 1] \in {"r", "n", "t"}
  <2>1. Is(text, a, {"open"}) /\ a < bufc /\ Run(text, a + 1, bufc - 1, Inside) /\ Is(text, bufc, Strokes)
    BY <1>3 DEF Heard
  <2> QED
    BY <1>3, <1>4, <2>1, StrPart
<1>8. /\ c = CASE buf[bufc + 1] = "r" -> "CR" [] buf[bufc + 1] = "n" -> "LF"
               [] buf[bufc + 1] = "t" -> "sp"
      /\ c \in {"CR", "LF", "sp"}
  BY <1>3, <1>6, <1>7 DEF Speaks
<1>9. ToLocal(c)
  BY <1>1, <1>8
<1>10. PICK k : k = bufc + 2
  OBVIOUS
<1>11. k \in Nat /\ bufc' = k /\ bufc < k /\ k - 1 = bufc + 1
  BY <1>1, <1>3, <1>10
<1>12. Run(text, a + 1, k - 1, Inside) /\ Is(text, k, Strokes)
       /\ SaidTo(text, a, k - 1) = SaidTo(text, a, bufc - 1) + 1
  BY <1>5, <1>10, <1>11
<1>13. c \in Chars /\ text.parts[bufc] \in Escapes
  BY <1>4, <1>8 DEF Chars, Ends, Escapes, Inside
<1>14. TokenAt(text, a).says[SaidTo(text, a, bufc - 1) + 1] = c
  BY <1>5, <1>6
<1> QED
  BY <1>1, <1>2, <1>9, <1>11, <1>12, <1>13, <1>14, ToLocalReads

LEMMA BackslashReads == ASSUME IInv, LexInv, text.plain, Backslash
                        PROVE  LexInv'
<1>1. /\ status = "str" /\ text' = text /\ errs' = errs /\ status' = status /\ given' = given
      /\ cSep' = cSep /\ Escape /\ ~HasOf(bufc + 1, {"r", "n", "t"}) /\ bufc' = bufc + 1
      /\ ToLocal("\\")
  BY DEF Backslash, AtStr, fixed, Skip
<1>2. PICK a : a = tk.key - 1
  OBVIOUS
<1>3. /\ text \in Texts /\ bufc \in Nat /\ tk.local \in BOOLEAN /\ buf = text.chars
      /\ Heard(text, a, bufc, tk.local, buff) /\ bufc \in 1..Len(text.chars)
  BY <1>1, <1>2, Hearing
<1>4. text.parts[bufc] = "lone" /\ text.chars[bufc] = "\\"
  BY <1>1, <1>3, HearPart DEF Escape, Doubled, Has
<1>5. /\ Run(text, a + 1, bufc, Inside) /\ Is(text, bufc + 1, Strokes)
      /\ SaidTo(text, a, bufc) = SaidTo(text, a, bufc - 1) + 1
      /\ TokenAt(text, a).says[SaidTo(text, a, bufc - 1) + 1] = text.chars[bufc]
  <2>1. text.parts[bufc] \in {"char", "lone"}
    BY <1>4
  <2> QED
    BY <1>3, <2>1, SaysOne
<1>6. PICK c : c = "\\"
  OBVIOUS
<1>7. ToLocal(c) /\ c \in Chars
  BY <1>1, <1>6 DEF Chars
<1>8. PICK k : k = bufc + 1
  OBVIOUS
<1>9. k \in Nat /\ bufc' = k /\ bufc < k /\ k - 1 = bufc
  BY <1>1, <1>3, <1>8
<1>10. Run(text, a + 1, k - 1, Inside) /\ Is(text, k, Strokes)
       /\ SaidTo(text, a, k - 1) = SaidTo(text, a, bufc - 1) + 1
  BY <1>5, <1>8, <1>9
<1>11. text.parts[bufc] \in Escapes
  BY <1>4 DEF Escapes, Inside
<1>12. TokenAt(text, a).says[SaidTo(text, a, bufc - 1) + 1] = c
  BY <1>4, <1>5, <1>6
<1> QED
  BY <1>1, <1>2, <1>7, <1>9, <1>10, <1>11, <1>12, ToLocalReads

(* Characters that are what they are were read, up to k.                     *)
LEMMA CharsRead ==
  ASSUME IInv, LexInv, text.plain, status = "str", text' = text, errs' = errs, status' = status,
         given' = given, cSep' = cSep, tk' = tk, NEW a, a = tk.key - 1, NEW k, bufc' = k,
         NEW s, buff' = s, Heard(text, a, k, tk.local, s)
  PROVE  LexInv'
<1>1. /\ errs = 0 /\ buf = text.chars
      /\ tk.type = "STR" /\ cSep = text.chars[a] /\ given + 1 = Nth(text, a)
  BY Hearing
<1>2. Hears(a)'
  <2>1. buf' = text.chars
    BY <1>1 DEF buf
  <2>2. Heard(text', a, bufc', tk'.local, buff')
    OBVIOUS
  <2>3. cSep' = buf'[a] /\ given' + 1 = Nth(text', a)
    BY <1>1, <2>1
  <2> QED
    BY <1>1, <2>2, <2>3 DEF Hears
<1>3. a = tk'.key - 1 /\ errs' = 0 /\ status' = "str"
  BY <1>1
<1> QED
  BY <1>2, <1>3, ArriveStr

LEMMA StrMoreReads == ASSUME IInv, LexInv, text.plain, StrMore
                      PROVE  LexInv'
<1>1. /\ status = "str" /\ text' = text /\ errs' = errs /\ status' = status /\ given' = given
      /\ cSep' = cSep /\ tk' = tk /\ bufc' = bufc + 1 /\ ~HasOf(bufc, Ends \cup {cSep}) /\ ~Escape
      /\ Copy(Put(buff, buf[bufc]))
  BY DEF StrMore, AtStr, fixed, Skip
<1>2. PICK a : a = tk.key - 1
  OBVIOUS
<1>3. /\ text \in Texts /\ bufc \in Nat /\ tk.local \in BOOLEAN /\ buf = text.chars
      /\ Heard(text, a, bufc, tk.local, buff) /\ bufc \in 1..Len(text.chars)
  BY <1>1, <1>2, Hearing
<1>4. ~Has(bufc, cSep)
  BY <1>1 DEF Has, HasOf
<1>5. text.parts[bufc] = "char"
  BY <1>1, <1>4, HearPart DEF Doubled
<1>6. PICK s : s = buff'
  OBVIOUS
<1>7. tk.local => s = Put(buff, text.chars[bufc])
  BY <1>1, <1>3, <1>6 DEF Copy
<1>8. Heard(text, a, bufc + 1, tk.local, s)
  BY <1>3, <1>5, <1>7, HeardChar
<1>9. PICK k : k = bufc + 1
  OBVIOUS
<1> QED
  BY <1>1, <1>2, <1>6, <1>8, <1>9, CharsRead

LEMMA StrLineEndReads == ASSUME IInv, LexInv, text.plain, StrLineEnd
                         PROVE  LexInv'
<1>1. /\ status = "str" /\ text' = text /\ errs' = errs /\ status' = status /\ given' = given
      /\ cSep' = cSep /\ tk' = tk /\ bufc' = PastEnd(bufc) /\ HasOf(bufc, Ends)
      /\ Copy(IF PastEnd(bufc) = bufc + 2 THEN Put(Put(buff, "CR"), "LF") ELSE Put(buff, buf[bufc]))
  BY DEF StrLineEnd, AtStr, fixed, NewLine
<1>2. PICK a : a = tk.key - 1
  OBVIOUS
<1>3. /\ text \in Texts /\ bufc \in Nat /\ tk.local \in BOOLEAN /\ buf = text.chars
      /\ Heard(text, a, bufc, tk.local, buff) /\ bufc \in 1..Len(text.chars)
  BY <1>1, <1>2, Hearing
<1>4. text.parts[bufc] = "char"
  BY <1>1, HearPart
<1>5. PICK s : s = buff'
  OBVIOUS
<1>6. PICK k : k = bufc + 1
  OBVIOUS
<1>7. k \in Nat /\ k # bufc + 2 /\ k + 1 = bufc + 2
  BY <1>3, <1>6
<1>8. CASE text.chars[bufc] = "CR" /\ Has(bufc + 1, "LF")
  <2>1. PastEnd(bufc) = bufc + 2
    BY <1>3, <1>8 DEF PastEnd
  <2>2. PICK one : one = Put(buff, "CR")
    OBVIOUS
  <2>3. Heard(text, a, k, tk.local, one)
    BY <1>3, <1>4, <1>6, <1>8, <2>2, HeardChar
  <2>4. text.chars[k] = "LF" /\ Is(text, k, Strokes)
    BY <1>3, <1>6, <1>8, <2>3, HeardType DEF Has
  <2>5. text.parts[k] = "char"
    <3>1. k \in 1..Len(text.chars) /\ text.parts[k] \in {"char", "twin", "esc", "lone", "close"}
      BY <1>3, <2>4, PlainText DEF Is, Strokes
    <3>2. Fits(text.parts[k], "LF")
      BY <1>3, <2>4, <3>1, PartChars
    <3> QED
      BY <3>1, <3>2 DEF Fits, Quotes
  <2>6. tk.local => s = Put(one, text.chars[k])
    BY <1>1, <1>5, <2>1, <2>2, <2>4 DEF Copy
  <2>7. Heard(text, a, k + 1, tk.local, s)
    BY <1>3, <2>3, <2>5, <2>6, HeardChar
  <2>8. PICK m : m = k + 1
    OBVIOUS
  <2>9. bufc' = m /\ Heard(text, a, m, tk.local, s)
    BY <1>1, <1>7, <2>1, <2>7, <2>8
  <2> QED
    BY <1>1, <1>2, <1>5, <2>9, CharsRead
<1>9. CASE ~(text.chars[bufc] = "CR" /\ Has(bufc + 1, "LF"))
  <2>1. PastEnd(bufc) = k
    BY <1>3, <1>6, <1>9 DEF PastEnd
  <2>2. tk.local => s = Put(buff, text.chars[bufc])
    BY <1>1, <1>3, <1>5, <1>7, <2>1 DEF Copy
  <2>3. Heard(text, a, k, tk.local, s)
    BY <1>3, <1>4, <1>6, <2>2, HeardChar
  <2> QED
    BY <1>1, <1>2, <1>5, <2>1, <2>3, CharsRead
<1> QED
  BY <1>8, <1>9

LEMMA ClearReads == ASSUME IInv, LexInv, text.plain, Clear
                    PROVE  LexInv'
<1>1. /\ text' = text /\ errs' = errs /\ status' = "idle" /\ given' = 0 /\ bufc' = 1
  BY DEF Clear
<1>2. text \in Texts /\ errs = 0 /\ Len(text.chars) \in Nat
  BY Standing DEF LexInv
<1>3. Opens(text, 1) /\ Nth(text, 1 - 1) = 0
  <2>1. Nth(text, 0) = 0 /\ 1 - 1 = 0
    BY <1>2, NthNext
  <2>2. Opens(text, 1)
    <3>1. CASE Len(text.chars) = 0
      BY <3>1 DEF Opens
    <3>2. CASE Len(text.chars) # 0
      <4>1. 1 \in DOMAIN text.chars
        BY <1>2, <3>2, PlainText
      <4> QED
        BY <1>2, <4>1, PlainText DEF Opens, Is
    <3> QED
      BY <3>1, <3>2
  <2> QED
    BY <2>1, <2>2
<1>4. Rightly'
  BY <1>1 DEF Rightly
<1> QED
  BY <1>1, <1>2, <1>3, <1>4, ArriveBetween

LEMMA LexStep == ASSUME IInv, Fresh, LexInv, [Next]_vars
                 PROVE  LexInv'
<1>1. CASE UNCHANGED vars
  BY <1>1 DEF vars, fixed, place, string, LexInv, Between, AtTheEnd, InRemark, InBlock, InName, InNum, InStr,
     Reads, Hears, Rightly, Said, Cut, buf, bufe
<1>2. CASE Next /\ ~text.plain
  <2>1. text' = text
    BY <1>2, RestStep
  <2> QED
    BY <1>2, <2>1 DEF LexInv
<1>3. CASE Next /\ text.plain
  BY <1>3, CallReads, BlankReads, LineEndReads, MarkReads, SlashReads, ShiftReads, EndReads,
     LineCommentReads, EatCommentReads, BlockCommentReads, EatBlockReads, AlphaReads, AlphaMoreReads,
     AlphaEndReads, NumReads, NumMoreReads, NumEndReads, OpenStringReads, CloseStringReads,
     DoubledQuoteReads, EscapeLetterReads, BackslashReads, StrLineEndReads, StrMoreReads, ClearReads,
     NeverInvalid DEF Next
<1> QED
  BY <1>1, <1>2, <1>3

LEMMA LexInit == Init => Fresh /\ LexInv
<1> SUFFICES ASSUME Init PROVE Fresh /\ LexInv
  OBVIOUS
<1>1. text \in Texts /\ bufc = 1 /\ errs = 0 /\ status = "idle" /\ given = 0
  BY DEF Init
<1>2. ASSUME text.plain PROVE Between
  <2>1. Nth(text, 0) = 0 /\ 1 - 1 = 0 /\ Len(text.chars) \in Nat
    BY <1>1, <1>2, NthNext, PlainText
  <2>2. Opens(text, 1)
    <3>1. CASE Len(text.chars) = 0
      BY <3>1 DEF Opens
    <3>2. CASE Len(text.chars) # 0
      <4>1. 1 \in DOMAIN text.chars
        BY <1>1, <1>2, <2>1, <3>2, PlainText
      <4> QED
        BY <1>1, <1>2, <4>1, PlainText DEF Opens, Is
    <3> QED
      BY <3>1, <3>2
  <2> QED
    BY <1>1, <2>1, <2>2 DEF Between
<1>3. AtTheEnd /\ InRemark /\ InBlock /\ InName /\ InNum /\ InStr /\ Rightly
  BY <1>1 DEF AtTheEnd, InRemark, InBlock, InName, InNum, InStr, Rightly
<1> QED
  BY <1>1, <1>2, <1>3 DEF Fresh, LexInv

LEMMA LexHolds == ASSUME IInv, LexInv
                  PROVE  AsWritten
<1> SUFFICES ASSUME text.plain PROVE AsWritten
  BY DEF AsWritten
<1>1. text \in Texts /\ status # "error" /\ errs = 0 /\ Between /\ AtTheEnd /\ Rightly
  BY DEF LexInv
<1>2. /\ bufc \in Nat \ {0} /\ given \in Nat /\ Len(text.chars) \in Nat /\ bufe = Len(text.chars) + 1
      /\ bufc <= Len(text.chars) + 1
  BY <1>1, Standing
<1>3. ASSUME status \in {"idle", "end"} PROVE given <= Len(text.tokens)
  <2>1. given = Nth(text, bufc - 1)
    BY <1>1, <1>3 DEF Between
  <2>2. bufc - 1 \in 0..Len(text.chars)
    BY <1>2
  <2> QED
    BY <1>1, <2>1, <2>2, NthBound
<1>4. ASSUME status = "end" PROVE given = Len(text.tokens)
  <2>1. given = Nth(text, bufc - 1)
    BY <1>1, <1>4 DEF Between
  <2>2. bufc - 1 = Len(text.chars)
    BY <1>1, <1>2, <1>4 DEF AtTheEnd
  <2> QED
    BY <1>1, <2>1, <2>2, PlainText
<1> QED
  BY <1>1, <1>3, <1>4 DEF AsWritten, Rightly

-----------------------------------------------------------------------------
(* Every text that was written as lexemes, whatever is in it and however     *)
(* often it is passed over, is read as these; this is AsWritten.             *)
THEOREM LexedAsWritten == Spec => []AsWritten
<1>1. IInv /\ [Next]_vars => IInv'
  BY StepOK, StutterOK
<1>2. IInv /\ Fresh /\ LexInv /\ [Next]_vars => Fresh' /\ LexInv'
  BY FreshStep, LexStep
<1>3. IInv /\ LexInv => AsWritten
  BY LexHolds
<1> QED
  BY InitOK, LexInit, <1>1, <1>2, <1>3, PTL DEF Spec

-----------------------------------------------------------------------------
(* Numbers: what the two loops of bsm_parse_num compute.  Every character is *)
(* worth a number:                                                           *)
Worthy(worth, s) == s \in Seq(Chars) /\ \A i \in 1..Len(s) : worth[s[i]] \in Nat

(* v is the loop turn by turn, sum the total digit by digit.                 *)
Turns(v, base, worth, s) ==
  /\ v \in [0..Len(s) -> 0..(Wrap-1)] /\ v[0] = 0
  /\ \A i \in 1..Len(s) : v[i] = (v[i-1] * base + worth[s[i]]) % Wrap
Sums(sum, base, s) ==
  /\ sum \in [0..Len(s) -> Nat] /\ sum[0] = 0
  /\ \A i \in 1..Len(s) : sum[i] = sum[i-1] + Hex[s[i]] * PlaceOf(base)[Len(s) - i]

LEMMA LoopIs ==
  ASSUME NEW base \in Nat, NEW worth, NEW s, Worthy(worth, s)
  PROVE  \E v : Turns(v, base, worth, s) /\ Loop64(base, worth, s) = v[Len(s)]
<1> DEFINE st == [x \in Nat \X (1..Len(s)) |-> (x[1] * base + worth[s[x[2]]]) % Wrap]
           Fixes(g) == g = [i \in 0..Len(s) |-> IF i = 0 THEN 0 ELSE (g[i-1] * base + worth[s[i]]) % Wrap]
           S == 0..(Wrap - 1)
<1>0. Len(s) \in Nat /\ Wrap \in Nat /\ Wrap > 0 /\ 0 \in S /\ S \subseteq Nat
  BY WrapAssumption DEF Worthy
<1>1. ASSUME NEW a \in S, NEW i \in 1..Len(s)
      PROVE  st[<<a, i>>] = (a * base + worth[s[i]]) % Wrap /\ st[<<a, i>>] \in S
  <2>1. a \in Nat /\ worth[s[i]] \in Nat
    BY <1>0 DEF Worthy
  <2>2. a * base + worth[s[i]] \in Nat
    BY <2>1
  <2>3. (a * base + worth[s[i]]) % Wrap \in S
    BY <1>0, <2>2, Remainder
  <2>4. st[<<a, i>>] = (a * base + worth[s[i]]) % Wrap
    BY <2>1
  <2>5. QED
    BY <2>3, <2>4
<1> HIDE DEF st, S
<1>2. PICK g \in [0..Len(s) -> S] : Along(g, Len(s), 0, st)
  <2>1. Closed(S, Len(s), st)
    BY <1>1 DEF Closed
  <2>2. QED
    BY <1>0, <2>1, Recursive
<1>3. Fixes(g)
  <2> DEFINE h == [i \in 0..Len(s) |-> IF i = 0 THEN 0 ELSE st[<<g[i-1], i>>]]
             k == [i \in 0..Len(s) |-> IF i = 0 THEN 0 ELSE (g[i-1] * base + worth[s[i]]) % Wrap]
  <2>1. ASSUME NEW i \in 0..Len(s) PROVE h[i] = k[i]
    <3>1. i # 0 => i - 1 \in 0..Len(s) /\ i \in 1..Len(s)
      BY <1>0
    <3>2. i # 0 => st[<<g[i-1], i>>] = (g[i-1] * base + worth[s[i]]) % Wrap
      BY <3>1, <1>1
    <3>3. QED
      BY <3>2
  <2>2. h = [i \in 0..Len(s) |-> h[i]] /\ k = [i \in 0..Len(s) |-> k[i]]
    OBVIOUS
  <2>3. g = h
    BY <1>2 DEF Along
  <2> HIDE DEF h, k
  <2>4. h = k
    BY <2>1, <2>2
  <2>5. QED
    BY <2>3, <2>4 DEF k
<1>4. Loop64(base, worth, s) = (CHOOSE v : Fixes(v))[Len(s)]
  BY DEF Loop64
<1> DEFINE v == CHOOSE w : Fixes(w)
<1>5. Fixes(v)
  <2> HIDE DEF Fixes
  <2>1. QED
    BY <1>3, Zenon
<1>6. Loop64(base, worth, s) = v[Len(s)]
  BY <1>4
<1> HIDE DEF v
<1>7. \A i \in 0..Len(s) : v[i] = IF i = 0 THEN 0 ELSE (v[i-1] * base + worth[s[i]]) % Wrap
  BY <1>5
<1>8. v[0] = 0 /\ \A i \in 1..Len(s) : v[i] = (v[i-1] * base + worth[s[i]]) % Wrap
  BY <1>0, <1>7
<1>9. v \in [0..Len(s) -> S]
  <2>1. ASSUME NEW i \in 0..Len(s) PROVE v[i] \in S
    <3> DEFINE T == {j \in Nat : j \in 0..Len(s) => v[j] \in S}
    <3>1. 0 \in T /\ T \subseteq Nat
      BY <1>0, <1>8
    <3>2. ASSUME NEW j \in T PROVE j + 1 \in T
      <4>1. j \in Nat
        OBVIOUS
      <4>2. SUFFICES ASSUME j + 1 \in 0..Len(s) PROVE v[j+1] \in S
        BY <4>1
      <4>3. j + 1 \in 1..Len(s) /\ j \in 0..Len(s) /\ (j + 1) - 1 = j
        BY <4>1, <4>2, <1>0
      <4>4. v[j] \in S
        BY <4>3
      <4>5. v[j+1] = (v[j] * base + worth[s[j+1]]) % Wrap
        <5>1. v[j+1] = (v[(j+1)-1] * base + worth[s[j+1]]) % Wrap
          BY <4>3, <1>8
        <5>2. QED
          BY <4>3, <5>1
      <4>6. QED
        BY <4>3, <4>4, <4>5, <1>1
    <3> HIDE DEF T
    <3>3. T = Nat
      BY <3>1, <3>2, SetInduction
    <3>4. QED
      BY <3>3, <1>0 DEF T
  <2>2. v = [i \in 0..Len(s) |-> v[i]]
    BY <1>5
  <2>3. QED
    BY <2>1, <2>2
<1>10. QED
  BY <1>6, <1>8, <1>9 DEF S, Turns

LEMMA PlaceIs ==
  ASSUME NEW base \in Nat
  PROVE  /\ PlaceOf(base) \in [Nat -> Nat] /\ PlaceOf(base)[0] = 1
         /\ \A n \in Nat : PlaceOf(base)[n+1] = base * PlaceOf(base)[n]
<1> DEFINE st == [x \in Nat \X Nat |-> base * x[1]]
           Fixes(g) == g = [n \in Nat |-> IF n = 0 THEN 1 ELSE base * g[n-1]]
<1>1. ASSUME NEW a \in Nat, NEW n \in Nat PROVE st[<<a, n>>] = base * a /\ st[<<a, n>>] \in Nat
  <2>1. st[<<a, n>>] = base * a
    OBVIOUS
  <2>2. base * a \in Nat
    OBVIOUS
  <2>3. QED
    BY <2>1, <2>2
<1> HIDE DEF st
<1>2. PICK f : Orbit(f, Nat, 1, st)
  <2>1. Steps(Nat, st)
    BY <1>1 DEF Steps
  <2>2. QED
    BY <2>1, Recursion
<1>3. f \in [Nat -> Nat] /\ f[0] = 1
  BY <1>2 DEF Orbit
<1>4. ASSUME NEW n \in Nat PROVE f[n+1] = base * f[n]
  <2>1. f[n] \in Nat /\ f[n+1] = st[<<f[n], n>>]
    BY <1>2 DEF Orbit
  <2>2. QED
    BY <2>1, <1>1
<1>5. Fixes(f)
  <2> DEFINE h == [n \in Nat |-> IF n = 0 THEN 1 ELSE base * f[n-1]]
  <2>1. ASSUME NEW n \in Nat PROVE f[n] = h[n]
    <3>1. CASE n = 0
      BY <3>1, <1>3
    <3>2. CASE n # 0
      <4>1. n - 1 \in Nat /\ (n - 1) + 1 = n
        BY <3>2
      <4>2. f[(n-1)+1] = base * f[n-1]
        BY <4>1, <1>4
      <4>3. f[n] = base * f[n-1]
        BY <4>1, <4>2
      <4>4. QED
        BY <3>2, <4>3
    <3>3. QED
      BY <3>1, <3>2
  <2>2. f = [n \in Nat |-> f[n]] /\ h = [n \in Nat |-> h[n]]
    BY <1>3
  <2> HIDE DEF h
  <2>3. f = h
    BY <2>1, <2>2
  <2>4. QED
    BY <2>3 DEF h
<1>6. PlaceOf(base) = CHOOSE g : Fixes(g)
  BY DEF PlaceOf
<1> DEFINE p == PlaceOf(base)
<1>7. Fixes(p)
  <2> HIDE DEF Fixes
  <2>1. QED
    BY <1>5, <1>6, Zenon
<1> HIDE DEF p
<1>8. \A n \in Nat : p[n] = IF n = 0 THEN 1 ELSE base * p[n-1]
  BY <1>7
<1>9. p[0] = 1
  BY <1>8
<1>10. ASSUME NEW n \in Nat PROVE p[n+1] = base * p[n]
  <2>1. n + 1 \in Nat /\ n + 1 # 0 /\ (n + 1) - 1 = n
    OBVIOUS
  <2>2. p[n+1] = base * p[(n+1)-1]
    BY <2>1, <1>8
  <2>3. QED
    BY <2>1, <2>2
<1>11. p \in [Nat -> Nat]
  <2> DEFINE T == {n \in Nat : p[n] \in Nat}
  <2>1. 0 \in T /\ T \subseteq Nat
    BY <1>9
  <2>2. ASSUME NEW n \in T PROVE n + 1 \in T
    <3>1. n \in Nat /\ p[n] \in Nat /\ p[n+1] = base * p[n]
      BY <1>10
    <3>2. base * p[n] \in Nat
      BY <3>1
    <3>3. QED
      BY <3>1, <3>2
  <2> HIDE DEF T
  <2>3. T = Nat
    BY <2>1, <2>2, SetInduction
  <2>4. \A n \in Nat : p[n] \in Nat
    BY <2>3 DEF T
  <2>5. p = [n \in Nat |-> p[n]]
    BY <1>7
  <2>6. QED
    BY <2>4, <2>5
<1>12. QED
  BY <1>9, <1>10, <1>11 DEF p

LEMMA TotalIs ==
  ASSUME NEW base \in Nat, NEW s, Worthy(Hex, s)
  PROVE  \E sum : Sums(sum, base, s) /\ Total(base, s) = sum[Len(s)]
<1> DEFINE add(i) == Hex[s[i]] * PlaceOf(base)[Len(s) - i]
           st == [x \in Nat \X (1..Len(s)) |-> x[1] + add(x[2])]
           Fixes(g) == g = [i \in 0..Len(s) |-> IF i = 0 THEN 0 ELSE g[i-1] + add(i)]
<1>0. Len(s) \in Nat
  BY DEF Worthy
<1>1. ASSUME NEW i \in 1..Len(s) PROVE add(i) \in Nat
  <2>1. Hex[s[i]] \in Nat
    BY DEF Worthy
  <2>2. Len(s) - i \in Nat
    BY <1>0
  <2>3. PlaceOf(base)[Len(s) - i] \in Nat
    BY <2>2, PlaceIs
  <2>4. QED
    BY <2>1, <2>3
<1>2. Total(base, s) = (CHOOSE g : Fixes(g))[Len(s)]
  BY DEF Total
<1> HIDE DEF add
<1>3. ASSUME NEW a \in Nat, NEW i \in 1..Len(s)
      PROVE  st[<<a, i>>] = a + add(i) /\ st[<<a, i>>] \in Nat
  <2>1. st[<<a, i>>] = a + add(i)
    OBVIOUS
  <2>2. QED
    BY <2>1, <1>1
<1> HIDE DEF st
<1>4. PICK g \in [0..Len(s) -> Nat] : Along(g, Len(s), 0, st)
  <2>1. Closed(Nat, Len(s), st)
    BY <1>3 DEF Closed
  <2>2. QED
    BY <1>0, <2>1, Recursive
<1>5. Fixes(g)
  <2> DEFINE h == [i \in 0..Len(s) |-> IF i = 0 THEN 0 ELSE st[<<g[i-1], i>>]]
             k == [i \in 0..Len(s) |-> IF i = 0 THEN 0 ELSE g[i-1] + add(i)]
  <2>1. ASSUME NEW i \in 0..Len(s) PROVE h[i] = k[i]
    <3>1. i # 0 => i - 1 \in 0..Len(s) /\ i \in 1..Len(s)
      BY <1>0
    <3>2. i # 0 => st[<<g[i-1], i>>] = g[i-1] + add(i)
      BY <3>1, <1>3
    <3>3. QED
      BY <3>2
  <2>2. h = [i \in 0..Len(s) |-> h[i]] /\ k = [i \in 0..Len(s) |-> k[i]]
    OBVIOUS
  <2>3. g = h
    BY <1>4 DEF Along
  <2> HIDE DEF h, k
  <2>4. h = k
    BY <2>1, <2>2
  <2>5. QED
    BY <2>3, <2>4 DEF k
<1> DEFINE v == CHOOSE w : Fixes(w)
<1>6. Fixes(v)
  <2> HIDE DEF Fixes
  <2>1. QED
    BY <1>5, Zenon
<1>7. Total(base, s) = v[Len(s)]
  BY <1>2
<1> HIDE DEF v
<1>8. \A i \in 0..Len(s) : v[i] = IF i = 0 THEN 0 ELSE v[i-1] + add(i)
  BY <1>6
<1>9. v[0] = 0 /\ \A i \in 1..Len(s) : v[i] = v[i-1] + add(i)
  BY <1>0, <1>8
<1>10. v \in [0..Len(s) -> Nat]
  <2> DEFINE T == {j \in Nat : j \in 0..Len(s) => v[j] \in Nat}
  <2>1. 0 \in T /\ T \subseteq Nat
    BY <1>9
  <2>2. ASSUME NEW j \in T PROVE j + 1 \in T
    <3>1. j \in Nat
      OBVIOUS
    <3>2. SUFFICES ASSUME j + 1 \in 0..Len(s) PROVE v[j+1] \in Nat
      BY <3>1
    <3>3. j + 1 \in 1..Len(s) /\ j \in 0..Len(s) /\ (j + 1) - 1 = j
      BY <3>1, <3>2, <1>0
    <3>4. v[j] \in Nat /\ add(j+1) \in Nat
      BY <3>3, <1>1
    <3>5. v[j+1] = v[(j+1)-1] + add(j+1)
      BY <3>3, <1>9
    <3>6. QED
      BY <3>3, <3>4, <3>5
  <2> HIDE DEF T
  <2>3. T = Nat
    BY <2>1, <2>2, SetInduction
  <2>4. \A i \in 0..Len(s) : v[i] \in Nat
    BY <2>3, <1>0 DEF T
  <2>5. v = [i \in 0..Len(s) |-> v[i]]
    BY <1>6
  <2>6. QED
    BY <2>4, <2>5
<1>11. QED
  BY <1>7, <1>9, <1>10 DEF add, Sums

(* The loop computes what the digits say, as far as 64 bits hold it: behind  *)
(* digit i the two differ by a multiple of Wrap, at the place of digit i.    *)
Same(sum, v, base, s, i) ==
  \E q \in Int : sum[i] = v[i] * PlaceOf(base)[Len(s) - i] + q * Wrap

LEMMA SameNext ==
  ASSUME NEW base \in Nat, NEW worth, NEW s, Worthy(Hex, s),
         \A i \in 1..Len(s) : worth[s[i]] = Hex[s[i]],
         NEW v, Turns(v, base, worth, s), NEW sum, Sums(sum, base, s),
         NEW i \in 1..Len(s), Same(sum, v, base, s, i - 1)
  PROVE  Same(sum, v, base, s, i)
<1>0. Len(s) \in Nat /\ Wrap \in Nat /\ Wrap > 0
  BY WrapAssumption DEF Worthy
<1>1. PICK q \in Int : sum[i-1] = v[i-1] * PlaceOf(base)[Len(s) - (i-1)] + q * Wrap
  BY DEF Same
<1>2. PICK n : n = Len(s) - i
  OBVIOUS
<1>3. n \in Nat /\ Len(s) - (i-1) = n + 1
  BY <1>0, <1>2
<1>4. PICK p \in Nat : p = PlaceOf(base)[n] /\ PlaceOf(base)[n+1] = base * p
  BY <1>3, PlaceIs
<1>5. PICK d \in Nat : d = Hex[s[i]] /\ d = worth[s[i]]
  BY DEF Worthy
<1>6. i - 1 \in 0..Len(s) /\ i \in 0..Len(s)
  BY <1>0
<1>7. v[i-1] \in 0..(Wrap-1) /\ v[i] \in 0..(Wrap-1)
  BY <1>6 DEF Turns
<1>8. PICK a \in Nat : a = v[i-1]
  BY <1>0, <1>7
<1>9. PICK b \in Nat : b = v[i]
  BY <1>0, <1>7
<1>10. b = (a * base + d) % Wrap
  BY <1>5, <1>8, <1>9 DEF Turns
<1>11. sum[i-1] = a * (base * p) + q * Wrap
  BY <1>1, <1>3, <1>4, <1>8
<1>12. sum[i] = sum[i-1] + Hex[s[i]] * PlaceOf(base)[Len(s) - i]
  BY DEF Sums
<1>13. sum[i] = (a * (base * p) + q * Wrap) + d * p
  BY <1>2, <1>4, <1>5, <1>11, <1>12
<1>14. PICK r \in Int : (a * (base * p) + q * Wrap) + d * p = b * p + r * Wrap
  <2>1. ASSUME NEW W, W = Wrap PROVE Carries(W, base, p, d, a, q, b)
    <3>1. W \in Nat /\ W > 0 /\ b = (a * base + d) % W
      BY <1>0, <1>10, <2>1
    <3>2. QED
      BY <3>1, Carry
  <2>2. QED
    BY <2>1 DEF Carries
<1>15. sum[i] = v[i] * PlaceOf(base)[Len(s) - i] + r * Wrap
  BY <1>2, <1>4, <1>9, <1>13, <1>14
<1>16. QED
  BY <1>15 DEF Same

LEMMA LoopReads ==
  ASSUME NEW base \in Nat, NEW worth, NEW s, Worthy(Hex, s),
         \A i \in 1..Len(s) : worth[s[i]] = Hex[s[i]]
  PROVE  Loop64(base, worth, s) = Total(base, s) % Wrap
<1>0. Len(s) \in Nat /\ Worthy(worth, s) /\ Wrap \in Nat /\ Wrap > 0
  BY WrapAssumption DEF Worthy
<1>1. PICK v : Turns(v, base, worth, s) /\ Loop64(base, worth, s) = v[Len(s)]
  BY <1>0, LoopIs
<1>2. PICK sum : Sums(sum, base, s) /\ Total(base, s) = sum[Len(s)]
  BY TotalIs
<1> DEFINE T == {i \in Nat : i \in 0..Len(s) => Same(sum, v, base, s, i)}
<1>3. 0 \in T /\ T \subseteq Nat
  <2>1. PICK n \in Nat : n = Len(s) - 0
    BY <1>0
  <2>2. PICK p \in Nat : p = PlaceOf(base)[n]
    BY PlaceIs
  <2>3. sum[0] = 0 /\ v[0] = 0
    BY <1>1, <1>2 DEF Turns, Sums
  <2>4. 0 = 0 * p + 0 * Wrap
    BY <1>0
  <2>5. QED
    BY <2>1, <2>2, <2>3, <2>4 DEF Same
<1>4. ASSUME NEW j \in T PROVE j + 1 \in T
  <2>1. PICK i : i = j + 1
    OBVIOUS
  <2>2. SUFFICES ASSUME i \in 0..Len(s) PROVE Same(sum, v, base, s, i)
    BY <2>1
  <2>3. j \in Nat /\ i \in 1..Len(s) /\ j \in 0..Len(s) /\ i - 1 = j
    BY <1>0, <2>1, <2>2
  <2>4. Same(sum, v, base, s, i - 1)
    BY <2>3
  <2>5. QED
    BY <1>1, <1>2, <2>3, <2>4, SameNext
<1> HIDE DEF T
<1>5. T = Nat
  BY <1>3, <1>4, SetInduction
<1>6. Same(sum, v, base, s, Len(s))
  BY <1>0, <1>5 DEF T
<1>7. PlaceOf(base)[0] = 1 /\ Len(s) - Len(s) = 0
  BY <1>0, PlaceIs
<1>8. PICK q \in Int : sum[Len(s)] = v[Len(s)] * 1 + q * Wrap
  BY <1>6, <1>7 DEF Same
<1>9. PICK r : r = v[Len(s)]
  OBVIOUS
<1>10. PICK x : x = sum[Len(s)]
  OBVIOUS
<1>11. r \in 0..(Wrap-1) /\ x \in Nat
  BY <1>0, <1>1, <1>2, <1>9, <1>10 DEF Turns, Sums
<1>12. x = r + q * Wrap
  BY <1>0, <1>8, <1>9, <1>10, <1>11
<1>13. x % Wrap = r
  <2>1. ASSUME NEW W, W = Wrap PROVE x % W = r
    <3>1. W \in Nat /\ W > 0 /\ r \in 0..(W-1) /\ x \in Int /\ x = r + q * W
      BY <1>0, <1>11, <1>12, <2>1
    <3>2. QED
      BY <3>1, RemainderIs
  <2>2. QED
    BY <2>1
<1>14. QED
  BY <1>1, <1>2, <1>9, <1>10, <1>13

-----------------------------------------------------------------------------
(* What the lexer hands out as a number.                                     *)
Numeral(s) ==
  /\ s \in Seq(Chars) /\ s # <<>> /\ s[1] \in Digits
  /\ \A i \in 1..Len(s) :
       /\ s[i] \in Digits \cup {"a", "b", ".", "x", "h"}
       /\ s[i] = "x" => i = 2 /\ s[1] = "0"
       /\ s[i] = "h" => i = Len(s)

LEMMA Worths ==
  /\ DOMAIN Hex = {"0", "1", "a", "b"} /\ \A c \in DOMAIN Hex : Hex[c] \in Nat
  /\ \A c \in Digits : c \in DOMAIN Hex /\ Ascii[c] = Hex[c]
<1>1. DOMAIN Hex = {"0", "1", "a", "b"}
  BY DEF Hex
<1>2. Hex["0"] = 0 /\ Hex["1"] = 1 /\ Hex["a"] = 10 /\ Hex["b"] = 11
  BY DEF Hex
<1>3. Ascii["0"] = 0 /\ Ascii["1"] = 1
  BY DEF Ascii
<1>4. QED
  BY <1>1, <1>2, <1>3 DEF Digits

LEMMA ValuesDiffer == \A v : Value(v) # Refused
  BY DEF Value, Refused

LEMMA HexReads ==
  ASSUME NEW s, s \in Seq(Chars), s # <<>>
  PROVE  _parse_hex(s) = OfDigits(16, s, DOMAIN Hex)
<1>1. DOMAIN s = 1..Len(s)
  OBVIOUS
<1>2. ToSet(s) \subseteq DOMAIN Hex <=> \A i \in DOMAIN s : s[i] \in DOMAIN Hex
  BY DEF ToSet
<1>3. CASE \A i \in DOMAIN s : s[i] \in DOMAIN Hex
  <2>1. Worthy(Hex, s)
    BY <1>1, <1>3, Worths DEF Worthy
  <2>2. Loop64(16, Hex, s) = Total(16, s) % Wrap
    BY <2>1, LoopReads
  <2>3. _parse_hex(s) = Value(Loop64(16, Hex, s))
    BY <1>3 DEF _parse_hex
  <2>4. OfDigits(16, s, DOMAIN Hex) = Value(Total(16, s) % Wrap)
    BY <1>2, <1>3 DEF OfDigits
  <2>5. QED
    BY <2>2, <2>3, <2>4
<1>4. CASE ~ \A i \in DOMAIN s : s[i] \in DOMAIN Hex
  BY <1>2, <1>4 DEF _parse_hex, OfDigits
<1>5. QED
  BY <1>3, <1>4

LEMMA DecimalReads ==
  ASSUME NEW s, s \in Seq(Chars), s # <<>>
  PROVE  Decimal(s) = OfDigits(10, s, Digits) <=> ToSet(s) \subseteq Digits
<1>1. DOMAIN s = 1..Len(s)
  OBVIOUS
<1>2. CASE ToSet(s) \subseteq Digits
  <2>1. \A i \in 1..Len(s) : s[i] \in Digits
    BY <1>1, <1>2 DEF ToSet
  <2>2. Worthy(Hex, s) /\ \A i \in 1..Len(s) : Ascii[s[i]] = Hex[s[i]]
    BY <2>1, Worths DEF Worthy
  <2>3. Loop64(10, Ascii, s) = Total(10, s) % Wrap
    BY <2>2, LoopReads
  <2>4. OfDigits(10, s, Digits) = Value(Total(10, s) % Wrap)
    BY <1>2 DEF OfDigits
  <2>5. QED
    BY <1>2, <2>3, <2>4 DEF Decimal
<1>3. CASE ~(ToSet(s) \subseteq Digits)
  BY <1>3, ValuesDiffer DEF OfDigits, Decimal
<1>4. QED
  BY <1>2, <1>3

LEMMA FrontOf ==
  ASSUME NEW s, s \in Seq(Chars), s # <<>>
  PROVE  /\ Len(s) \in Nat /\ Len(s) >= 1
         /\ Front(s) \in Seq(Chars) /\ Len(Front(s)) = Len(s) - 1
         /\ \A i \in 1..(Len(s)-1) : Front(s)[i] = s[i]
         /\ Len(s) > 1 => Front(s) # <<>>
         /\ DOMAIN Front(s) = 1..(Len(s)-1)
<1>1. Len(s) \in Nat /\ Len(s) >= 1
  OBVIOUS
<1>2. \A i \in 1..(Len(s)-1) : s[i] \in Chars /\ 1 + i - 1 = i
  BY <1>1
<1>3. /\ SubSeq(s, 1, Len(s)-1) \in Seq(Chars) /\ Len(SubSeq(s, 1, Len(s)-1)) = Len(s) - 1
      /\ \A i \in 1..(Len(s)-1) : SubSeq(s, 1, Len(s)-1)[i] = s[i]
  <2>1. PICK n \in Int : n = Len(s) - 1 /\ (n - 1) + 1 = n /\ n >= 0
    BY <1>1
  <2>2. /\ SubSeq(s, 1, n) \in Seq(Chars) /\ Len(SubSeq(s, 1, n)) = IF 1 <= n THEN n - 1 + 1 ELSE 0
        /\ \A i \in 1..(n - 1 + 1) : SubSeq(s, 1, n)[i] = s[1 + i - 1]
    BY <1>2, <2>1, SubSeqProperties
  <2>3. QED
    BY <1>2, <2>1, <2>2
<1>4. PICK f : f = SubSeq(s, 1, Len(s)-1)
  OBVIOUS
<1>5. /\ f \in Seq(Chars) /\ Len(f) = Len(s) - 1 /\ \A i \in 1..(Len(s)-1) : f[i] = s[i]
      /\ Front(s) = f
  BY <1>3, <1>4 DEF Front
<1>6. DOMAIN f = 1..(Len(s)-1) /\ (Len(s) > 1 => f # <<>>)
  BY <1>1, <1>5
<1>7. QED
  BY <1>1, <1>5, <1>6

(* bsm_parse_num reads a numeral as it is meant, or it is an odd one.        *)
LEMMA NumeralRead ==
  ASSUME NEW s, Numeral(s)
  PROVE  bsm_parse_num(s) = Meant(s) <=> ~OddNumber(s)
<1>1. /\ s \in Seq(Chars) /\ s # <<>> /\ Len(s) \in Nat /\ Len(s) >= 1 /\ DOMAIN s = 1..Len(s)
      /\ s[1] \in {"0", "1"}
  BY FrontOf DEF Numeral, Digits
<1>2. \A i \in 1..Len(s) : /\ s[i] \in {"0", "1", "a", "b", ".", "x", "h"}
                           /\ s[i] = "x" => i = 2 /\ s[1] = "0"
                           /\ s[i] = "h" => i = Len(s)
  BY DEF Numeral, Digits
<1>3. /\ DOMAIN Hex = {"0", "1", "a", "b"} /\ Digits = {"0", "1"}
      /\ Last(s) = s[Len(s)] /\ Len(s) \in 1..Len(s) /\ 1 \in 1..Len(s)
  BY <1>1, Worths DEF Digits, Last
<1>3a. Last(s) = s[Len(s)]
  BY DEF Last
<1>3b. ASSUME NEW c, Last(s) = c, NEW i \in 1..Len(s), s[i] # c PROVE i < Len(s)
  <2>1. i # Len(s)
    BY <1>3a, <1>3b
  <2>2. Len(s) \in Nat
    BY <1>1
  <2>3. QED
    BY <2>1, <2>2
<1>4. /\ Contains(s, ".") <=> \E i \in 1..Len(s) : s[i] = "."
      /\ "." \in ToSet(s) <=> \E i \in 1..Len(s) : s[i] = "."
  BY <1>1 DEF Contains, ToSet
<1>5. CASE HasPrefix(s)
  <2>1. Len(s) > 2 /\ s[1] = "0" /\ s[2] = "x"
    BY <1>5 DEF HasPrefix
  <2> DEFINE e == IF Last(s) = "h" THEN Len(s) - 1 ELSE Len(s)
             t == SubSeq(s, 3, e)
  <2>2. e \in Nat /\ e >= 2 /\ e <= Len(s)
    BY <1>1, <2>1
  <2>3. Meant(s) = OfDigits(16, t, DOMAIN Hex)
    BY <1>5 DEF Meant
  <2>4. ~OddNumber(s)
    BY <1>5 DEF OddNumber
  <2>5. /\ WithoutH(s) \in Seq(Chars) /\ Len(WithoutH(s)) = e
        /\ \A i \in 1..e : WithoutH(s)[i] = s[i]
    <3>1. CASE Last(s) = "h"
      BY <1>1, <2>1, <3>1, FrontOf DEF WithoutH
    <3>2. CASE Last(s) # "h"
      BY <1>1, <3>2 DEF WithoutH
    <3>3. QED
      BY <3>1, <3>2
  <2> HIDE DEF e
  <2>6. t \in Seq(Chars) /\ Len(t) = e - 2 /\ \A i \in 1..(e-2) : t[i] = s[i+2]
    <3>1. \A i \in 3..e : i \in 1..Len(s)
      BY <1>1, <2>2
    <3>2. t \in Seq(Chars) /\ Len(t) = e - 2
      BY <1>1, <2>2, <3>1
    <3>3. ASSUME NEW i \in 1..(e-2) PROVE t[i] = s[i+2]
      <4>1. i + 2 = 3 + i - 1
        BY <2>2
      <4>2. QED
        BY <1>1, <2>2, <4>1
    <3>4. QED
      BY <3>2, <3>3
  <2>7. bsm_parse_num(s) = IF Contains(s, ".") THEN Refused ELSE Prefixed(s)
    BY <1>1, <1>5 DEF bsm_parse_num
  <2>8. SubSeq(WithoutH(s), 3, e) = t
    <3>1. PICK u : u = WithoutH(s)
      OBVIOUS
    <3>2. u \in Seq(Chars) /\ Len(u) = e /\ \A i \in 1..e : u[i] = s[i]
      BY <2>5, <3>1
    <3>3. SubSeq(u, 3, e) \in Seq(Chars) /\ Len(SubSeq(u, 3, e)) = e - 2
      <4>1. \A i \in 3..e : i \in 1..Len(u)
        BY <2>2, <3>2
      <4>2. QED
        BY <2>2, <3>2, <4>1
    <3>4. ASSUME NEW i \in 1..(e-2) PROVE SubSeq(u, 3, e)[i] = t[i]
      <4>1. i + 2 = 3 + i - 1 /\ i + 2 \in 1..e
        BY <2>2
      <4>2. SubSeq(u, 3, e)[i] = u[i+2]
        BY <2>2, <3>2, <4>1
      <4>3. QED
        BY <2>6, <3>2, <4>1, <4>2
    <3> HIDE DEF t
    <3>5. SubSeq(u, 3, e) = t
      <4>1. PICK w : w = SubSeq(u, 3, e)
        OBVIOUS
      <4>2. w \in Seq(Chars) /\ Len(w) = Len(t) /\ \A i \in 1..Len(t) : w[i] = t[i]
        BY <2>6, <3>3, <3>4, <4>1
      <4>3. w = t
        BY <2>6, <4>2
      <4>4. QED
        BY <4>1, <4>3
    <3>6. QED
      BY <3>1, <3>5
  <2>9. Prefixed(s) = IF e <= 2 THEN Refused ELSE _parse_hex(t)
    BY <2>5, <2>8 DEF Prefixed
  <2>10. (\E i \in 1..Len(s) : s[i] = ".") => \E i \in 1..(e-2) : t[i] = "."
    <3>1. SUFFICES ASSUME NEW j \in 1..Len(s), s[j] = "." PROVE \E i \in 1..(e-2) : t[i] = "."
      OBVIOUS
    <3>2. j # 1 /\ j # 2
      BY <2>1, <3>1
    <3>3. j <= e
      <4>1. CASE Last(s) = "h"
        <5>1. j < Len(s)
          <6>1. s[j] # "h"
            BY <3>1
          <6>2. QED
            BY <1>3b, <4>1, <6>1
        <5>2. QED
          BY <1>1, <4>1, <5>1 DEF e
      <4>2. CASE Last(s) # "h"
        BY <1>1, <4>2 DEF e
      <4>3. QED
        BY <4>1, <4>2
    <3>4. j - 2 \in 1..(e-2) /\ (j - 2) + 2 = j
      BY <1>1, <2>2, <3>2, <3>3
    <3>5. t[j-2] = "."
      BY <2>6, <3>1, <3>4
    <3>6. QED
      BY <3>4, <3>5
  <2> HIDE DEF t
  <2>11. CASE Contains(s, ".")
    <3>1. PICK i \in 1..(e-2) : t[i] = "."
      BY <1>4, <2>10, <2>11
    <3>2. ~(ToSet(t) \subseteq DOMAIN Hex)
      <4>1. DOMAIN t = 1..(e-2)
        BY <2>6, <2>2
      <4>2. "." \in ToSet(t)
        BY <3>1, <4>1 DEF ToSet
      <4>3. QED
        BY <1>3, <4>2
    <3>3. Meant(s) = Refused
      BY <2>3, <3>2 DEF OfDigits
    <3>4. QED
      BY <2>4, <2>7, <2>11, <3>3
  <2>12. CASE ~Contains(s, ".") /\ e <= 2
    <3>1. t = <<>>
      BY <2>2, <2>6, <2>12
    <3>2. Meant(s) = Refused
      BY <2>3, <3>1 DEF OfDigits
    <3>3. QED
      BY <2>4, <2>7, <2>9, <2>12, <3>2
  <2>13. CASE ~Contains(s, ".") /\ ~(e <= 2)
    <3>1. t # <<>>
      BY <2>2, <2>6, <2>13
    <3>2. _parse_hex(t) = OfDigits(16, t, DOMAIN Hex)
      BY <2>6, <3>1, HexReads
    <3>3. QED
      BY <2>3, <2>4, <2>7, <2>9, <2>13, <3>2
  <2>14. QED
    BY <2>11, <2>12, <2>13
<1>6. CASE ~HasPrefix(s) /\ Last(s) = "h"
  <2>1. Len(s) > 1
    <3>1. s[1] # "h" /\ 1 \in 1..Len(s)
      BY <1>1
    <3>2. QED
      BY <1>6, <1>3b, <3>1
  <2>2. /\ Front(s) \in Seq(Chars) /\ Front(s) # <<>> /\ DOMAIN Front(s) = 1..(Len(s)-1)
        /\ \A i \in 1..(Len(s)-1) : Front(s)[i] = s[i]
    BY <1>1, <2>1, FrontOf
  <2>3. Meant(s) = OfDigits(16, Front(s), DOMAIN Hex) /\ ~OddNumber(s)
    BY <1>6 DEF Meant, OddNumber
  <2>4. bsm_parse_num(s) = IF Contains(s, ".") THEN Refused ELSE _parse_hex(Front(s))
    BY <1>1, <1>6 DEF bsm_parse_num
  <2>5. CASE Contains(s, ".")
    <3>1. PICK i \in 1..Len(s) : s[i] = "."
      BY <1>4, <2>5
    <3>2. i \in 1..(Len(s)-1)
      <4>1. s[i] # "h"
        BY <3>1
      <4>2. i < Len(s)
        BY <1>6, <1>3b, <4>1
      <4>3. QED
        BY <1>1, <4>2
    <3>3. "." \in ToSet(Front(s))
      BY <2>2, <3>1, <3>2 DEF ToSet
    <3>4. Meant(s) = Refused
      BY <1>3, <2>3, <3>3 DEF OfDigits
    <3>5. QED
      BY <2>3, <2>4, <2>5, <3>4
  <2>6. CASE ~Contains(s, ".")
    BY <2>2, <2>3, <2>4, <2>6, HexReads
  <2>7. QED
    BY <2>5, <2>6
<1>7. CASE ~HasPrefix(s) /\ Last(s) = "b"
  <2>1. Len(s) > 1
    <3>1. s[1] # "b" /\ 1 \in 1..Len(s)
      BY <1>1
    <3>2. QED
      BY <1>7, <1>3b, <3>1
  <2>2. Front(s) # <<>> /\ DOMAIN Front(s) = 1..(Len(s)-1) /\ \A i \in 1..(Len(s)-1) : Front(s)[i] = s[i]
    BY <1>1, <2>1, FrontOf
  <2>3. Meant(s) = OfDigits(2, Front(s), Digits) /\ bsm_parse_num(s) = Refused
    BY <1>1, <1>7 DEF Meant, bsm_parse_num
  <2>4. Meant(s) = Refused <=> ~(ToSet(Front(s)) \subseteq Digits)
    BY <2>2, <2>3, ValuesDiffer DEF OfDigits
  <2>5. ToSet(Front(s)) \subseteq Digits => "." \notin ToSet(s)
    <3>1. SUFFICES ASSUME ToSet(Front(s)) \subseteq Digits, "." \in ToSet(s) PROVE FALSE
      OBVIOUS
    <3>2. PICK i \in 1..Len(s) : s[i] = "."
      BY <1>4, <3>1
    <3>3. i \in 1..(Len(s)-1)
      <4>1. s[i] # "b"
        BY <3>2
      <4>2. i < Len(s)
        BY <1>7, <1>3b, <4>1
      <4>3. QED
        BY <1>1, <4>2
    <3>4. "." \in ToSet(Front(s))
      BY <2>2, <3>2, <3>3 DEF ToSet
    <3>5. QED
      BY <1>3, <3>1, <3>4
  <2>6. OddNumber(s) <=> ToSet(Front(s)) \subseteq Digits
    BY <1>7, <2>5 DEF OddNumber
  <2>7. QED
    BY <2>3, <2>4, <2>6
<1>8. CASE ~HasPrefix(s) /\ Last(s) # "h" /\ Last(s) # "b"
  <2>1. Meant(s) = OfDigits(10, s, Digits)
    BY <1>8 DEF Meant
  <2>2. bsm_parse_num(s) = IF Contains(s, ".") THEN Refused ELSE Decimal(s)
    BY <1>1, <1>8 DEF bsm_parse_num
  <2>3. OddNumber(s) <=> ~Contains(s, ".") /\ ~(ToSet(s) \subseteq Digits)
    BY <1>4, <1>8 DEF OddNumber
  <2>4. CASE Contains(s, ".")
    <3>1. ~(ToSet(s) \subseteq Digits)
      BY <1>3, <1>4, <2>4
    <3>2. Meant(s) = Refused
      BY <2>1, <3>1 DEF OfDigits
    <3>3. QED
      BY <2>2, <2>3, <2>4, <3>2
  <2>5. CASE ~Contains(s, ".")
    BY <1>1, <2>1, <2>2, <2>3, <2>5, DecimalReads
  <2>6. QED
    BY <2>4, <2>5
<1>9. QED
  BY <1>5, <1>6, <1>7, <1>8

-----------------------------------------------------------------------------
(* Every number token, of a plain text or of another one, is a numeral: the  *)
(* characters between key and bufc while it is read, then what it says.      *)
NumeralFrom(a, b) ==
  /\ a \in DOMAIN buf /\ buf[a] \in Digits
  /\ \A i \in a..(b-1) : /\ i \in DOMAIN buf /\ buf[i] \in Digits \cup {"a", "b", ".", "x"}
                         /\ buf[i] = "x" => i = a + 1 /\ buf[a] = "0"
NumInv ==
  /\ status = "str" => tk.type = "STR"
  /\ status = "num" => ~tk.local /\ tk.key <= bufc /\ NumeralFrom(tk.key, bufc)
  /\ status = "idle" /\ tk.type = "NUM" => ~tk.local /\ Numeral(Said)

LEMMA NumCounts ==
  ASSUME IInv, Fresh, Num
  PROVE  NumInv'
<1>1. /\ text' = text /\ status' = "num" /\ bufc' = bufc /\ AtNext(Digits)
      /\ tk' = [tk EXCEPT !.type = "NUM", !.key = bufc] /\ tk = NoToken
  BY DEF Num, fixed, place, Loop, AtNext, Fresh
<1>2. tk'.key = bufc /\ ~tk'.local
  BY <1>1 DEF NoToken
<1>3. bufc \in DOMAIN buf /\ buf[bufc] \in Digits /\ bufc \in Nat
  BY <1>1, DomBuf DEF IInv, WithinText, AtNext, HasOf, bufe
<1>4. PICK b : b = bufc
  OBVIOUS
<1>5. b..(b-1) = {} /\ b <= b
  BY <1>3, <1>4
<1>6. buf' = buf
  BY <1>1 DEF buf
<1>7. NumeralFrom(b, b)'
  BY <1>3, <1>4, <1>5, <1>6 DEF NumeralFrom
<1>8. tk'.key = b /\ bufc' = b
  BY <1>1, <1>2, <1>4
<1>9. NumeralFrom(tk.key, bufc)'
  BY <1>7, <1>8
<1>10. QED
  BY <1>1, <1>2, <1>5, <1>8, <1>9 DEF NumInv

LEMMA NumMoreCounts ==
  ASSUME IInv, NumInv, NumMore
  PROVE  NumInv'
<1>1. /\ text' = text /\ status = "num" /\ status' = "num" /\ bufc' = bufc + 1
      /\ NumChar(bufc) /\ tk' = tk
  BY DEF NumMore, fixed, Skip
<1>2. PICK a : a = tk.key
  OBVIOUS
<1>3. PICK b : b = bufc
  OBVIOUS
<1>4. /\ ~tk.local /\ a <= b /\ NumeralFrom(a, b) /\ b \in Nat /\ a \in Nat
      /\ b >= 1 /\ DOMAIN buf = 1..Len(buf) /\ Len(buf) \in Nat
  BY <1>1, <1>2, <1>3, DomBuf DEF NumInv, IInv, WithinText, NumeralFrom
<1>5. /\ b \in DOMAIN buf /\ buf[b] \in Digits \cup {"a", "b", ".", "x"}
      /\ buf[b] = "x" => b = a + 1 /\ buf[a] = "0"
  <2>1. b < bufe
    BY <1>1, <1>3 DEF NumChar, HasOf, Has
  <2>2. b \in DOMAIN buf
    BY <1>4, <2>1 DEF bufe
  <2>3. CASE buf[b] \in Digits \cup {"a", "b"}
    BY <2>2, <2>3 DEF Digits
  <2>4. CASE buf[b] = "."
    BY <2>2, <2>4
  <2>5. CASE buf[b] = "x" /\ b = a + 1 /\ buf[a] = "0"
    BY <2>2, <2>5
  <2>6. QED
    BY <1>1, <1>2, <1>3, <2>3, <2>4, <2>5 DEF NumChar, HasOf, Has
<1>6. \A i \in a..((b+1)-1) : i \in a..(b-1) \/ i = b
  BY <1>4
<1>7. buf' = buf
  BY <1>1 DEF buf
<1>8. NumeralFrom(a, b + 1)
  BY <1>4, <1>5, <1>6 DEF NumeralFrom
<1>9. NumeralFrom(a, b + 1)'
  BY <1>7, <1>8 DEF NumeralFrom
<1>10. tk'.key = a /\ bufc' = b + 1 /\ ~tk'.local /\ a <= b + 1
  BY <1>1, <1>2, <1>3, <1>4
<1>11. NumeralFrom(tk.key, bufc)'
  BY <1>9, <1>10
<1>12. QED
  BY <1>1, <1>10, <1>11 DEF NumInv

LEMMA NumEndCounts ==
  ASSUME IInv, NumInv, NumEnd
  PROVE  NumInv'
<1>1. /\ text' = text /\ status = "num" /\ status' = "idle" /\ ~NumChar(bufc)
      /\ bufc' = bufc + (IF Has(bufc, "h") THEN 1 ELSE 0) /\ tk' = [tk EXCEPT !.kend = bufc']
      /\ buff' = buff
  BY DEF NumEnd, fixed, string, Skip, Give
<1>2. PICK a : a = tk.key
  OBVIOUS
<1>3. PICK b : b = bufc
  OBVIOUS
<1>4. /\ ~tk.local /\ a <= b /\ NumeralFrom(a, b) /\ b \in Nat /\ a \in Nat
      /\ DOMAIN buf = 1..Len(buf) /\ Len(buf) \in Nat /\ \A i \in DOMAIN buf : buf[i] \in Chars
  BY <1>1, <1>2, <1>3, DomBuf DEF NumInv, IInv, WithinText, NumeralFrom
<1>5. a \in DOMAIN buf /\ buf[a] \in Digits
  BY <1>4 DEF NumeralFrom
<1>6. a < b
  <2>1. SUFFICES ASSUME a = b PROVE FALSE
    BY <1>4
  <2>2. b < bufe /\ buf[b] \in Digits \cup {"a", "b"}
    BY <1>4, <1>5, <2>1 DEF bufe
  <2>3. QED
    BY <1>1, <1>3, <2>2 DEF NumChar, HasOf
<1>7. PICK e : e = bufc'
  OBVIOUS
<1>8. /\ e \in Nat /\ e - 1 \in Int /\ a \in Int /\ a <= e - 1
      /\ e = b \/ (e = b + 1 /\ b \in DOMAIN buf /\ buf[b] = "h")
  <2>1. CASE Has(bufc, "h")
    <3>1. b < bufe /\ buf[b] = "h" /\ e = b + 1
      BY <1>1, <1>3, <1>7, <2>1 DEF Has
    <3>2. b \in DOMAIN buf
      BY <1>4, <1>6, <3>1 DEF bufe
    <3>3. QED
      BY <1>4, <1>6, <3>1, <3>2
  <2>2. CASE ~Has(bufc, "h")
    <3>1. e = b
      BY <1>1, <1>3, <1>4, <1>7, <2>2
    <3>2. QED
      BY <1>4, <1>6, <3>1
  <2>3. QED
    BY <2>1, <2>2
<1>9. ASSUME NEW i \in a..(e-1)
      PROVE  /\ i \in DOMAIN buf /\ buf[i] \in Digits \cup {"a", "b", ".", "x", "h"}
             /\ buf[i] = "x" => i = a + 1 /\ buf[a] = "0"
             /\ buf[i] = "h" => i = e - 1
  <2>1. CASE i \in a..(b-1)
    <3>1. /\ i \in DOMAIN buf /\ buf[i] \in Digits \cup {"a", "b", ".", "x"}
          /\ buf[i] = "x" => i = a + 1 /\ buf[a] = "0"
      BY <1>4, <2>1 DEF NumeralFrom
    <3>2. buf[i] # "h"
      BY <3>1 DEF Digits
    <3>3. QED
      BY <3>1, <3>2
  <2>2. CASE ~(i \in a..(b-1))
    <3>1. i = b /\ e = b + 1 /\ b \in DOMAIN buf /\ buf[b] = "h"
      BY <1>4, <1>8, <2>2
    <3>2. i = e - 1
      BY <1>4, <3>1
    <3>3. QED
      BY <3>1, <3>2
  <2>3. QED
    BY <2>1, <2>2
<1>10. PICK s : s = SubSeq(buf, a, e - 1)
  OBVIOUS
<1>11. /\ s \in Seq(Chars) /\ Len(s) = e - a
       /\ \A i \in 1..(e-a) : s[i] = buf[a+i-1]
  <2>1. PICK n \in Int : n = e - 1 /\ n - a + 1 = e - a /\ a <= n
    BY <1>8
  <2>2. \A i \in a..n : buf[i] \in Chars
    BY <1>4, <1>9, <2>1
  <2>3. /\ SubSeq(buf, a, n) \in Seq(Chars)
        /\ Len(SubSeq(buf, a, n)) = IF a <= n THEN n - a + 1 ELSE 0
        /\ \A i \in 1..(n - a + 1) : SubSeq(buf, a, n)[i] = buf[a + i - 1]
    BY <1>8, <2>2, SubSeqProperties
  <2>4. QED
    BY <1>10, <2>1, <2>3
<1>12. Numeral(s)
  <2>1. ASSUME NEW i \in 1..Len(s)
        PROVE  /\ s[i] \in Digits \cup {"a", "b", ".", "x", "h"}
               /\ s[i] = "x" => i = 2 /\ s[1] = "0"
               /\ s[i] = "h" => i = Len(s)
    <3>1. PICK j : j = a + i - 1
      OBVIOUS
    <3>2. j \in a..(e-1) /\ s[i] = buf[j] /\ i \in 1..(e-a)
      BY <1>4, <1>8, <1>11, <3>1
    <3>3. j = a + 1 => i = 2
      BY <1>4, <3>1, <3>2
    <3>4. j = e - 1 => i = Len(s)
      BY <1>4, <1>8, <1>11, <3>1, <3>2
    <3>5. s[1] = buf[a]
      <4>1. 1 \in 1..(e-a) /\ a + 1 - 1 = a
        BY <1>4, <1>8
      <4>2. QED
        BY <1>11, <4>1
    <3>6. QED
      BY <1>9, <3>2, <3>3, <3>4, <3>5
  <2>2. s # <<>> /\ s[1] \in Digits
    <3>1. 1 \in 1..(e-a) /\ a + 1 - 1 = a
      BY <1>4, <1>8
    <3>2. s[1] = buf[a]
      BY <1>11, <3>1
    <3>3. Len(s) # 0
      BY <1>4, <1>8, <1>11
    <3>4. s # <<>>
      BY <1>11, <3>3
    <3>5. QED
      BY <1>5, <3>2, <3>4
  <2>3. QED
    BY <1>11, <2>1, <2>2 DEF Numeral
<1>13. tk \in [type : Types, key : 0..bufe, kend : Nat, local : BOOLEAN]
  BY DEF IInv, WithinText
<1>14. tk'.key = a /\ tk'.kend = e /\ ~tk'.local
  BY <1>1, <1>2, <1>4, <1>7, <1>13
<1>15. buf' = buf
  BY <1>1 DEF buf
<1>16. Said' = s
  BY <1>10, <1>14, <1>15 DEF Said
<1>17. Numeral(Said)'
  BY <1>12, <1>16 DEF Numeral
<1>18. QED
  BY <1>1, <1>14, <1>17 DEF NumInv

LEMMA MarksNoNumber == \A c \in DOMAIN Marks : Marks[c] # "NUM"
  BY DEF Marks

LEMMA NumInvStep ==
  ASSUME IInv, Fresh, NumInv, [Next]_vars
  PROVE  NumInv'
<1>0. tk \in [type : Types, key : 0..bufe, kend : Nat, local : BOOLEAN]
  BY DEF IInv, WithinText
<1>1. CASE Call \/ Blank \/ Invalid \/ End \/ LineComment \/ EatComment \/ BlockComment \/ EatBlock
             \/ EndOfBlock \/ Alpha \/ AlphaMore \/ OpenAtEnd \/ Unterminated
  <2>1. status' \notin {"str", "num", "idle"}
    BY <1>1 DEF Call, Blank, Invalid, End, LineComment, EatComment, BlockComment, EatBlock, EndOfBlock,
                Alpha, AlphaMore, OpenAtEnd, Unterminated, Loop, Fail, AtNext
  <2>2. QED
    BY <2>1 DEF NumInv
<1>2. CASE LineEnd \/ Mark \/ Slash \/ Shift \/ Clear
  <2>1. status' = "idle" /\ tk'.type # "NUM"
    <3>1. CASE LineEnd \/ Slash \/ Shift \/ Clear
      BY <3>1 DEF LineEnd, Slash, Shift, Clear, Single, Give, NoToken
    <3>2. CASE Mark
      <4>1. buf[bufc] \in DOMAIN Marks
        BY <3>2 DEF Mark, AtNext, HasOf
      <4>2. status' = "idle" /\ tk'.type = Marks[buf[bufc]]
        BY <3>2 DEF Mark, Single, Give, NoToken
      <4>3. QED
        BY <4>1, <4>2, MarksNoNumber
    <3>3. QED
      BY <1>2, <3>1, <3>2
  <2>2. QED
    BY <2>1 DEF NumInv
<1>3. CASE AlphaEnd
  <2>1. status' = "idle"
    BY <1>3 DEF AlphaEnd, Give
  <2>2. tk'.type \in {"LABEL", "DOLLAR", "DDOLL", "KEY"}
    <3>1. Name(tk.key, bufc) \in {"DOLLAR", "DDOLL", "KEY"}
      BY DEF Name
    <3>2. QED
      BY <1>0, <1>3, <3>1 DEF AlphaEnd, Give
  <2>3. QED
    BY <2>1, <2>2 DEF NumInv
<1>4. CASE CloseString
  <2>1. status' = "idle" /\ status = "str" /\ tk'.type = tk.type
    BY <1>0, <1>4 DEF CloseString, AtStr, Give
  <2>2. QED
    BY <2>1 DEF NumInv
<1>5. CASE OpenString
  <2>1. status' = "str" /\ tk'.type = "STR"
    BY <1>0, <1>5 DEF OpenString, Loop
  <2>2. QED
    BY <2>1 DEF NumInv
<1>6. CASE DoubledQuote \/ EscapeLetter \/ Backslash \/ StrLineEnd \/ StrMore
  <2>1. status' = "str" /\ status = "str" /\ tk'.type = tk.type
    BY <1>0, <1>6 DEF DoubledQuote, EscapeLetter, Backslash, StrLineEnd, StrMore, AtStr, ToLocal
  <2>2. QED
    BY <2>1 DEF NumInv
<1>7. CASE Num \/ NumMore \/ NumEnd
  BY <1>7, NumCounts, NumMoreCounts, NumEndCounts
<1>8. CASE UNCHANGED vars
  BY <1>8 DEF NumInv, vars, fixed, place, string, NumeralFrom, Numeral, Said, buf
<1>9. QED
  BY <1>1, <1>2, <1>3, <1>4, <1>5, <1>6, <1>7, <1>8 DEF Next

-----------------------------------------------------------------------------
(* In every pass over every plain text, each number token is worth what its  *)
(* author wrote, modulo 2^64, unless it is one of the odd ones; this is      *)
(* NumbersRead (blexer.c _num_token, bbuiltin.c 206-273).                    *)
THEOREM NumbersReadRight == Spec => []NumbersRead
<1>1. Init => NumInv
  BY DEF Init, NumInv, NoToken
<1>2. IInv /\ [Next]_vars => IInv'
  BY StepOK, StutterOK
<1>3. IInv /\ Fresh /\ LexInv /\ [Next]_vars => Fresh' /\ LexInv'
  BY FreshStep, LexStep
<1>4. IInv /\ Fresh /\ NumInv /\ [Next]_vars => NumInv'
  BY NumInvStep
<1>5. IInv /\ LexInv /\ NumInv => NumbersRead
  <2>1. SUFFICES ASSUME IInv, LexInv, NumInv, text.plain, status = "idle", given > 0, tk.type = "NUM"
                 PROVE  bsm_parse_num(Said) = Meant(text.tokens[given].says)
                          <=> ~OddNumber(text.tokens[given].says)
    BY DEF NumbersRead
  <2>2. Said = text.tokens[given].says
    BY <2>1, LexHolds DEF AsWritten
  <2>3. Numeral(Said)
    BY <2>1 DEF NumInv
  <2>4. QED
    BY <2>2, <2>3, NumeralRead
<1>6. QED
  BY InitOK, LexInit, <1>1, <1>2, <1>3, <1>4, <1>5, PTL DEF Spec
=============================================================================

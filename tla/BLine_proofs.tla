---------------------------- MODULE BLine_proofs ----------------------------
(***************************************************************************)
(* TypeOK, EachOnce and PartsAsWritten of BLine, for every set of sources. *)
(* The count of tokens taken only stays right if the readers that do not   *)
(* look at token_kept are never asked while a token is kept; that each     *)
(* token is taken for what it was written as needs the syntax of the       *)
(* sources too.                                                            *)
(***************************************************************************)
EXTENDS BLine, TLAPS

Roles    == {"key", "label", "dot", "eol", "end", "equ", "db", "cpu", "number", "name", "sep",
             "text", "colon", "item", "operand1", "operand2"}
PartType == [tok : Nat, role : Roles]
Unaware  == {"dot", "number", "ret"}

InOrder == \A k \in DOMAIN parts : parts[k].tok = k

Inv ==
  /\ TypeOK
  /\ parts \in Seq(PartType)
  /\ EachOnce
  /\ reader \in Unaware => ~token_kept

(* Whoever asks gets the next token nobody has taken; only the last one is *)
(* the end.                                                                *)
LEMMA Asked ==
  ASSUME Inv, reader \notin Stopped
  PROVE  /\ Ask \in 1..Len(source.tokens) /\ Ask = Len(parts) + 1
         /\ tk \in Tokens /\ (tk = "END" <=> Ask = Len(source.tokens))
         /\ Ask \in Nat /\ Len(source.tokens) \in Nat /\ source.tokens \in Seq(Tokens)
<1>1. source \in Sources /\ pos \in 0..Len(source.tokens) /\ token_kept \in BOOLEAN
      /\ (token_kept => pos > 0) /\ (token_kept \/ pos < Len(source.tokens))
  BY DEF Inv, TypeOK
<1>2. source.tokens \in Seq(Tokens)
      /\ \A i \in DOMAIN source.tokens : source.tokens[i] = "END" <=> i = Len(source.tokens)
  BY <1>1, SourcesAssumption
<1>3. DOMAIN source.tokens = 1..Len(source.tokens) /\ Len(source.tokens) \in Nat
  BY <1>2
<1>4. Ask \in 1..Len(source.tokens)
  BY <1>1, <1>3 DEF Ask
<1>5. Len(parts) = IF token_kept THEN pos - 1 ELSE pos
  BY DEF Inv, EachOnce, Stopped
<1>6. Ask = Len(parts) + 1
  BY <1>1, <1>3, <1>5 DEF Ask
<1>7. tk \in Tokens /\ (tk = "END" <=> Ask = Len(source.tokens))
  BY <1>2, <1>3, <1>4 DEF tk
<1> QED
  BY <1>2, <1>3, <1>4, <1>6, <1>7

(* Taking a token. *)
LEMMA Appended ==
  ASSUME parts \in Seq(PartType), InOrder, NEW role \in Roles, Part(Len(parts) + 1, role)
  PROVE  /\ parts' \in Seq(PartType) /\ Len(parts') = Len(parts) + 1
         /\ InOrder'
<1> DEFINE p == [tok |-> Len(parts) + 1, role |-> role]
<1>1. Len(parts) \in Nat /\ DOMAIN parts = 1..Len(parts)
  OBVIOUS
<1>2. p \in PartType
  BY <1>1 DEF PartType
<1>3. parts' = Append(parts, p)
  BY DEF Part
<1> HIDE DEF p
<1>4. parts' \in Seq(PartType) /\ Len(parts') = Len(parts) + 1
      /\ \A k \in 1..Len(parts) : parts'[k] = parts[k]
  BY <1>1, <1>2, <1>3
<1>5. DOMAIN parts' = 1..(Len(parts) + 1)
  BY <1>4
<1>6. parts'[Len(parts) + 1].tok = Len(parts) + 1
  <2>1. p.tok = Len(parts) + 1
    BY DEF p
  <2>2. parts'[Len(parts) + 1] = p
    BY <1>1, <1>2, <1>3
  <2> QED
    BY <2>1, <2>2, Zenon
<1>7. ASSUME NEW k \in DOMAIN parts' PROVE parts'[k].tok = k
  <2>1. CASE k \in 1..Len(parts)
    BY <1>1, <1>4, <2>1 DEF InOrder
  <2>2. CASE k = Len(parts) + 1
    BY <1>6, <2>2, Zenon
  <2> QED
    BY <1>1, <1>5, <1>7, <2>1, <2>2
<1> QED
  BY <1>4, <1>7 DEF InOrder

LEMMA Taken ==
  ASSUME Inv, reader \notin Stopped, NEW role \in Roles, Take(role)
  PROVE  /\ parts' \in Seq(PartType) /\ InOrder' /\ Len(parts') = pos'
         /\ pos' \in 1..Len(source.tokens) /\ token_kept' = FALSE
         /\ tk # "END" => pos' < Len(source.tokens)
<1>1. Part(Len(parts) + 1, role) /\ pos' = Ask /\ token_kept' = FALSE
  BY Asked DEF Take
<1>2. parts \in Seq(PartType) /\ InOrder
  BY DEF Inv, EachOnce, InOrder, Stopped
<1>3. parts' \in Seq(PartType) /\ InOrder' /\ Len(parts') = Len(parts) + 1
  BY <1>1, <1>2, Appended
<1> QED
  BY <1>1, <1>3, Asked

LEMMA TakenUnaware ==
  ASSUME Inv, reader \in Unaware, NEW role \in Roles, TakeNext(role)
  PROVE  Take(role) /\ NextTk = tk
BY DEF Inv, Unaware, TakeNext, Take, Ask, NextTk, tk, TypeOK

LEMMA Kept ==
  ASSUME Inv, reader \notin Stopped, Keep
  PROVE  /\ parts' \in Seq(PartType) /\ InOrder' /\ Len(parts') = pos' - 1
         /\ pos' \in 1..Len(source.tokens) /\ token_kept' = TRUE
<1>1. pos' = Ask /\ token_kept' = TRUE /\ parts' = parts
  BY DEF Keep
<1>2. parts \in Seq(PartType) /\ InOrder
  BY DEF Inv, EachOnce, InOrder, Stopped
<1>3. InOrder'
  BY <1>1, <1>2 DEF InOrder
<1> QED
  BY <1>1, <1>2, <1>3, Asked

-----------------------------------------------------------------------------
(* What every step leaves right but pos, token_kept and parts.             *)
Rest ==
  /\ source' = source /\ pass' \in 1..MaxPass
  /\ inst' \in Keys /\ nth' \in {1, 2} /\ full' \in BOOLEAN
  /\ reader' \in Stopped \cup {"line", "name", "dot", "number", "ret", "term", "sep", "colon", "data"}

LEMMA AfterTake ==
  ASSUME Inv, reader \notin Stopped, NEW role \in Roles, Take(role), Rest,
         tk # "END" \/ reader' \in Stopped
  PROVE  Inv'
<1>1. /\ parts' \in Seq(PartType) /\ InOrder' /\ Len(parts') = pos'
      /\ pos' \in 1..Len(source.tokens) /\ token_kept' = FALSE
      /\ tk # "END" => pos' < Len(source.tokens)
  BY Taken
<1>2. TypeOK'
  <2>1. Len(source.tokens) \in Nat
    BY Asked
  <2>2. source \in Sources /\ source' = source
    BY DEF Inv, TypeOK, Rest
  <2>3. pos' \in 0..Len(source.tokens) /\ pos' > 0 /\ token_kept' \in BOOLEAN
    <3>1. pos' \in 1..Len(source.tokens)
      BY <1>1
    <3>2. token_kept' \in BOOLEAN
      BY <1>1
    <3> QED
      BY <2>1, <3>1, <3>2
  <2>4. reader' \notin Stopped => pos' < Len(source.tokens)
    <3>1. tk # "END" => pos' < Len(source.tokens)
      BY <1>1
    <3> QED
      BY <3>1, Zenon
  <2> QED
    BY <2>2, <2>3, <2>4 DEF TypeOK, Rest
<1>3. EachOnce'
  BY <1>1 DEF EachOnce, InOrder
<1> QED
  BY <1>1, <1>2, <1>3 DEF Inv

LEMMA AfterKeep ==
  ASSUME Inv, reader \notin Stopped, Keep, Rest, reader' \notin Unaware
  PROVE  Inv'
<1>1. /\ parts' \in Seq(PartType) /\ InOrder' /\ Len(parts') = pos' - 1
      /\ pos' \in 1..Len(source.tokens) /\ token_kept' = TRUE
  BY Kept
<1>2. TypeOK'
  <2>1. Len(source.tokens) \in Nat
    BY Asked
  <2>2. source \in Sources /\ source' = source
    BY DEF Inv, TypeOK, Rest
  <2> QED
    BY <1>1, <2>1, <2>2 DEF TypeOK, Rest
<1>3. EachOnce'
  BY <1>1 DEF EachOnce, InOrder
<1> QED
  BY <1>1, <1>2, <1>3 DEF Inv

LEMMA AfterError ==
  ASSUME Inv, Error, Stay
  PROVE  Inv'
BY DEF Inv, TypeOK, EachOnce, Error, Stay, Stopped, Unaware

LEMMA Stays ==
  ASSUME Inv, Stay, NEW r \in {"line", "name", "dot", "number", "ret", "term", "sep", "colon", "data", "unfit", "end"},
         reader' = r
  PROVE  Rest
BY DEF Inv, TypeOK, Stay, Rest, Stopped

LEMMA Terms ==
  ASSUME Inv, NEW i \in Keys, NEW n \in {1, 2}, Term(i, n),
         NEW r \in {"line", "name", "dot", "number", "ret", "term", "sep", "colon", "data", "unfit"},
         reader' = r
  PROVE  Rest
BY DEF Inv, TypeOK, Term, Rest, Stopped

-----------------------------------------------------------------------------
LEMMA InvInit == Init => Inv
<1> SUFFICES ASSUME Init PROVE Inv
  OBVIOUS
<1>1. source.tokens \in Seq(Tokens) /\ source.tokens # <<>>
  BY SourcesAssumption DEF Init
<1>2. Len(source.tokens) \in Nat /\ Len(source.tokens) > 0
  BY <1>1
<1>3. pass \in 1..MaxPass
  BY MaxPassAssumption DEF Init
<1>4. pos \in 0..Len(source.tokens) /\ pos < Len(source.tokens)
  BY <1>2 DEF Init
<1>5. TypeOK
  BY <1>3, <1>4 DEF Init, TypeOK, Keys, Handled
<1> QED
  BY <1>5 DEF Init, Inv, EachOnce, Unaware

LEMMA InvNext == Inv /\ [Next]_vars => Inv'
<1> SUFFICES ASSUME Inv, [Next]_vars PROVE Inv'
  OBVIOUS
<1>1. CASE Key
  <2>1. tk # "END" /\ tk \in Keys /\ reader \notin Stopped
    BY <1>1 DEF Key, Keys, Handled, Stopped
  <2>2. reader' \in {"line", "name", "number", "ret", "term", "data", "unfit"}
    BY <1>1, <2>1 DEF Key, HandlerOf, Go, Back
  <2>3. Rest
    BY <1>1, <2>1, <2>2, Terms DEF Key
  <2> QED
    BY <1>1, <2>1, <2>3, AfterTake DEF Roles, Key
<1>2. CASE Label
  <2>1. tk # "END" /\ reader \notin Stopped
    BY <1>2 DEF Label, Labels, Stopped
  <2>2. Rest
    BY <1>2, Stays DEF Label, Back
  <2> QED
    BY <1>2, <2>1, <2>2, AfterTake DEF Roles, Label
<1>3. CASE Dot
  <2>1. Rest
    BY <1>3, Stays DEF Dot, Go
  <2> QED
    BY <1>3, <2>1, AfterTake DEF Roles, Dot, Stopped
<1>4. CASE LineEnd
  <2>1. Rest
    BY <1>4, Stays DEF LineEnd, Go
  <2> QED
    BY <1>4, <2>1, AfterTake DEF Roles, LineEnd, Stopped
<1>5. CASE End
  <2>1. Rest
    BY <1>5, Stays DEF End, Go
  <2> QED
    BY <1>5, <2>1, AfterTake DEF Roles, End, Go, Stopped
<1>6. CASE NoLine
  BY <1>6, AfterError DEF NoLine
<1>7. CASE Name
  <2>1. CASE tk = "equ" /\ Take("equ") /\ Term("equ", 1) /\ Go("term")
    <3>1. Rest
      BY <2>1, Terms DEF Go, Keys
    <3> QED
      BY <1>7, <2>1, <3>1, AfterTake DEF Roles, Name, Stopped
  <2>2. CASE tk = "db" /\ Take("db") /\ Term("db", 1) /\ Go("data")
    <3>1. Rest
      BY <2>2, Terms DEF Go, Keys, Handled
    <3> QED
      BY <1>7, <2>2, <3>1, AfterTake DEF Roles, Name, Stopped
  <2>3. CASE Error /\ Stay
    BY <2>3, AfterError
  <2> QED
    BY <1>7, <2>1, <2>2, <2>3 DEF Name
<1>8. CASE Processor
  <2>1. CASE NextTk = "cpu"
    <3>1. TakeNext("cpu") /\ reader' = "line" /\ Stay /\ reader \in Unaware /\ reader \notin Stopped
      BY <1>8, <2>1 DEF Processor, Go, Unaware, Stopped
    <3>2. Take("cpu") /\ tk # "END"
      BY <2>1, <3>1, TakenUnaware DEF Roles
    <3>3. Rest
      BY <3>1, Stays
    <3> QED
      BY <3>1, <3>2, <3>3, AfterTake DEF Roles
  <2>2. CASE NextTk # "cpu"
    BY <1>8, <2>2, AfterError DEF Processor
  <2> QED
    BY <2>1, <2>2
<1>9. CASE Number
  <2>1. reader \in Unaware /\ reader \notin Stopped /\ Stay
    BY <1>9 DEF Number, Unaware, Stopped
  <2>2. ASSUME NEW role \in {"number", "name"}, NextTk \in Nums, TakeNext(role), Back("line") \/ Back("name")
        PROVE  Inv'
    <3>1. Take(role) /\ tk # "END"
      BY <2>1, <2>2, TakenUnaware DEF Nums, Roles
    <3>2. Rest
      BY <2>1, <2>2, Stays DEF Back
    <3> QED
      BY <2>1, <3>1, <3>2, AfterTake DEF Roles
  <2>3. CASE Error
    BY <2>1, <2>3, AfterError
  <2> QED
    BY <1>9, <2>2, <2>3 DEF Number
<1>10. CASE Ret
  <2>1. CASE NextTk = "invalid"
    BY <1>10, <2>1 DEF Ret, Error, Term, Inv, TypeOK, EachOnce, Stopped, Unaware, Keys, Handled
  <2>2. CASE NextTk # "invalid"
    <3>1. reader \in Unaware /\ reader \notin Stopped
      BY <1>10 DEF Ret, Unaware, Stopped
    <3>2. Keep
      BY <1>10, <2>2, <3>1 DEF Ret, Keep, Ask, Inv
    <3>3. reader' \in {"line", "term"} /\ Rest
      BY <1>10, <2>2, Terms DEF Ret, Go, Keys, Handled
    <3> QED
      BY <3>1, <3>2, <3>3, AfterKeep DEF Unaware
  <2> QED
    BY <2>1, <2>2
<1>11. CASE TermPiece
  <2>1. tk # "END" /\ reader \notin Stopped /\ reader' \in {"term", "unfit"}
    BY <1>11 DEF TermPiece, Pieces, Keys, Handled, Nums, Stopped, Back
  <2>2. Rest
    BY <1>11, <2>1 DEF TermPiece, Rest, Inv, TypeOK, Stopped
  <2>3. Role \in Roles
    BY DEF Role, Roles
  <2> QED
    BY <1>11, <2>1, <2>2, <2>3, AfterTake DEF Roles, TermPiece
<1>12. CASE TermRefuses
  BY <1>12, AfterError DEF TermRefuses
<1>13. CASE TermEnd
  <2>1. reader \notin Stopped /\ Keep /\ Stay
    BY <1>13 DEF TermEnd, Stopped
  <2>2. reader' \in {"sep", "colon", "data", "line", "unfit"}
    BY <1>13 DEF TermEnd, AfterTerm, Back, Go
  <2>3. Rest
    BY <2>1, <2>2, Stays
  <2> QED
    BY <2>1, <2>2, <2>3, AfterKeep DEF Unaware
<1>14. CASE Sep
  <2>1. reader \notin Stopped /\ inst \in Keys
    BY <1>14 DEF Sep, Stopped, Inv, TypeOK
  <2>2. CASE tk = "," /\ Take("sep") /\ Term(inst, 2) /\ Go("term")
    <3>1. Rest
      BY <2>1, <2>2, Terms DEF Go
    <3> QED
      BY <2>1, <2>2, <3>1, AfterTake DEF Roles
  <2>3. CASE tk # "," /\ Keep /\ Back("line") /\ Stay
    <3>1. Rest
      BY <2>3, Stays DEF Back
    <3> QED
      BY <2>1, <2>3, <3>1, AfterKeep DEF Back, Unaware
  <2> QED
    BY <1>14, <2>2, <2>3 DEF Sep
<1>15. CASE Colon
  <2>1. reader \notin Stopped /\ inst \in Keys
    BY <1>15 DEF Colon, Stopped, Inv, TypeOK
  <2>2. CASE tk = ":" /\ Take("colon") /\ Term(inst, 2) /\ Back("term")
    <3>1. Rest
      BY <2>1, <2>2, Terms DEF Back
    <3> QED
      BY <2>1, <2>2, <3>1, AfterTake DEF Roles
  <2>3. CASE tk # ":" /\ Keep /\ Back("line") /\ Stay
    <3>1. Rest
      BY <2>3, Stays DEF Back
    <3> QED
      BY <2>1, <2>3, <3>1, AfterKeep DEF Back, Unaware
  <2> QED
    BY <1>15, <2>2, <2>3 DEF Colon
<1>16. CASE Data
  <2>1. reader \notin Stopped
    BY <1>16 DEF Data, Stopped
  <2>2. CASE tk = "," /\ Take("sep") /\ Go("data") /\ Stay
    <3>1. Rest
      BY <2>2, Stays DEF Go
    <3> QED
      BY <2>1, <2>2, <3>1, AfterTake DEF Roles
  <2>3. CASE tk = "str" /\ Take("text") /\ Back("data") /\ Stay
    <3>1. Rest
      BY <2>3, Stays DEF Back
    <3> QED
      BY <2>1, <2>3, <3>1, AfterTake DEF Roles
  <2>4. CASE Keep /\ Go("line") /\ Stay
    <3>1. Rest
      BY <2>4, Stays DEF Go
    <3> QED
      BY <2>1, <2>4, <3>1, AfterKeep DEF Go, Unaware
  <2>5. CASE Error /\ Stay
    BY <2>5, AfterError
  <2>6. CASE Keep /\ Go("term") /\ Term("db", 1)
    <3>1. Rest
      BY <2>6, Terms DEF Go, Keys, Handled
    <3> QED
      BY <2>1, <2>6, <3>1, AfterKeep DEF Go, Unaware
  <2> QED
    BY <1>16, <2>2, <2>3, <2>4, <2>5, <2>6 DEF Data
<1>17. CASE NextPass
  <2>1. Len(source.tokens) \in Nat /\ Len(source.tokens) > 0
    BY SourcesAssumption DEF Inv, TypeOK
  <2>2. pass' \in 1..MaxPass /\ source' = source
    BY <1>17, MaxPassAssumption DEF NextPass, Inv, TypeOK
  <2>3. pos' \in 0..Len(source'.tokens) /\ pos' < Len(source'.tokens)
    BY <1>17, <2>1, <2>2 DEF NextPass
  <2>4. TypeOK'
    BY <1>17, <2>2, <2>3 DEF NextPass, Inv, TypeOK
  <2> QED
    BY <1>17, <2>4 DEF NextPass, Inv, EachOnce, Unaware
<1>18. CASE UNCHANGED vars
  BY <1>18 DEF vars, Inv, TypeOK, EachOnce
<1> QED
  BY <1>1, <1>2, <1>3, <1>4, <1>5, <1>6, <1>7, <1>8, <1>9, <1>10, <1>11, <1>12, <1>13,
     <1>14, <1>15, <1>16, <1>17, <1>18 DEF Next

LEMMA Invariant == Spec => []Inv
  BY InvInit, InvNext, PTL DEF Spec

(* TypeOK: nobody asks for a token behind the end of the source.           *)
THEOREM NoneBehindTheEnd == Spec => []TypeOK
<1>1. Inv => TypeOK
  BY DEF Inv
<1> QED
  BY <1>1, Invariant, PTL

(* EachOnce: each token is taken by one reader, in order.                  *)
THEOREM TakenOnce == Spec => []EachOnce
<1>1. Inv => EachOnce
  BY DEF Inv
<1> QED
  BY <1>1, Invariant, PTL

-----------------------------------------------------------------------------
(* PartsAsWritten: what every reader can rely on to find at token i, the   *)
(* next one to be taken, in a source that follows the syntax.              *)

(* full knows of every token of the operand so far that is not silent.    *)
FullKnows(i) ==
  \A k \in 1..(i-1) :
    source.tokens[k] \notin Silent /\ (\A j \in k..(i-1) : source.roles[j] = Role) => full

TermEnds(i) ==
  /\ AfterTerm = "sep"   => Is(source, i, {","}, "sep") \/ Leaves(source, i)
  /\ AfterTerm = "colon" => Is(source, i, {":"}, "colon") \/ Leaves(source, i)
  /\ AfterTerm = "data"  => Is(source, i, {","}, "sep") \/ Over(source, i)
  /\ AfterTerm = "line"  => Leaves(source, i)

InTerm(i) ==
  /\ inst \in {"mov", "inc", "jmp", "ret", "equ", "db"}
  /\ nth = 2 => inst \in {"mov", "jmp"}
  /\ Is(source, i, Pieces, Role) \/ (full /\ TermEnds(i))
  /\ FullKnows(i)

InData(i) ==
  \/ Is(source, i, {","}, "sep") \/ Is(source, i, {"str"}, "text")
  \/ Over(source, i) \/ Is(source, i, Labels, "label")
  \/ Is(source, i, Pieces \ {"str", "es:"}, "item") /\ (i > 1 => source.roles[i-1] # "item")

Ready(i) ==
  /\ reader = "line"   => Opens(source, i)
  /\ reader = "name"   => Is(source, i, {"equ"}, "equ") \/ Is(source, i, {"db"}, "db")
  /\ reader = "dot"    => Is(source, i, {"cpu"}, "cpu")
  /\ reader = "number" => /\ Is(source, i, Nums, "number")
                          /\ inst = "bits" => source.tokens[i] = "width"
  /\ reader = "ret"    => /\ inst = "ret" /\ source.roles[i-1] = "key"
                          /\ Is(source, i, Pieces, "operand1") \/ Over(source, i)
  /\ reader = "term"   => InTerm(i)
  /\ reader = "sep"    => inst = "mov" /\ (Is(source, i, {","}, "sep") \/ Leaves(source, i))
  /\ reader = "colon"  => inst = "jmp" /\ (Is(source, i, {":"}, "colon") \/ Leaves(source, i))
  /\ reader = "data"   => inst = "db" /\ InData(i)
  /\ reader \in {"ret", "term", "sep", "colon", "data"} => i > 1 /\ Of(source, i - 1, {inst})

RolesKept == \A k \in 1..Len(parts) : parts[k].role = source.roles[k]

WrittenInv ==
  /\ reader # "error" /\ RolesKept
  /\ reader = "end" => Len(parts) = Len(source.roles)
  /\ reader \notin Stopped => Ready(Len(parts) + 1)

(* A token belongs to one statement. *)
LEMMA OneHead ==
  ASSUME NEW s, NEW i \in Nat, NEW x, NEW y, Of(s, i, {x}), Of(s, i, {y})
  PROVE  x = y
<1>1. PICK k \in 1..i : /\ s.roles[k] \in Heads /\ s.tokens[k] = x
                        /\ \A j \in (k+1)..i : s.roles[j] \notin Heads
  BY DEF Of
<1>2. PICK m \in 1..i : /\ s.roles[m] \in Heads /\ s.tokens[m] = y
                        /\ \A j \in (m+1)..i : s.roles[j] \notin Heads
  BY DEF Of
<1>3. k = m
  BY <1>1, <1>2
<1> QED
  BY <1>1, <1>2, <1>3

LEMMA NextOf ==
  ASSUME NEW s, NEW i \in Nat, i > 1, NEW x
  PROVE  /\ s.roles[i] \notin Heads /\ Of(s, i - 1, {x}) => Of(s, i, {x})
         /\ s.roles[i] \in Heads /\ s.tokens[i] = x => Of(s, i, {x})
<1>1. ASSUME s.roles[i] \notin Heads, Of(s, i - 1, {x})
      PROVE  Of(s, i, {x})
  <2>1. PICK k \in 1..(i-1) : /\ s.roles[k] \in Heads /\ s.tokens[k] = x
                              /\ \A j \in (k+1)..(i-1) : s.roles[j] \notin Heads
    BY <1>1 DEF Of
  <2>2. \A j \in (k+1)..i : j = i \/ j \in (k+1)..(i-1)
    BY <2>1
  <2>3. k \in 1..i
    BY <2>1
  <2> QED
    BY <1>1, <2>1, <2>2, <2>3 DEF Of
<1>2. ASSUME s.roles[i] \in Heads, s.tokens[i] = x
      PROVE  Of(s, i, {x})
  <2>1. i \in 1..i /\ \A j \in (i+1)..i : s.roles[j] \notin Heads
    OBVIOUS
  <2> QED
    BY <1>2, <2>1 DEF Of
<1> QED
  BY <1>1, <1>2

LEMMA HeadOf ==
  ASSUME NEW s, NEW i \in Nat \ {0}, NEW x, s.roles[i] \in Heads, s.tokens[i] = x
  PROVE  Of(s, i, {x})
<1>1. i \in 1..i /\ \A j \in (i+1)..i : s.roles[j] \notin Heads
  OBVIOUS
<1> QED
  BY <1>1 DEF Of

(* The next token in a source that is plain. *)
LEMMA PlainNext ==
  ASSUME Inv, source.plain, reader \notin Stopped, NEW i, i = Len(parts) + 1
  PROVE  /\ i \in Nat \ {0} /\ Ask = i /\ tk = source.tokens[i] /\ Len(parts) \in Nat
         /\ tk # "END" => Follow(source, i)
         /\ tk = "END" => i = Len(source.roles)
<1>1. /\ Ask \in 1..Len(source.tokens) /\ Ask = i /\ Len(source.tokens) \in Nat
      /\ tk = "END" <=> Ask = Len(source.tokens)
  BY Asked
<1>2. /\ Len(source.roles) = Len(source.tokens)
      /\ \A k \in 1..(Len(source.tokens) - 1) : Follow(source, k)
  BY SyntaxAssumption DEF Inv, TypeOK
<1>3. tk = source.tokens[i]
  BY <1>1 DEF tk
<1>4. Len(parts) \in Nat
  BY DEF Inv
<1> QED
  BY <1>1, <1>2, <1>3, <1>4

LEMMA WrittenTake ==
  ASSUME Inv, source.plain, WrittenInv, reader \notin Stopped,
         NEW i, i = Len(parts) + 1, NEW role \in Roles, role = source.roles[i],
         Take(role), source' = source, reader' \notin {"error", "end"},
         reader' # "unfit" => Ready(i + 1)'
  PROVE  WrittenInv'
<1>1. i \in Nat /\ Ask = i /\ Len(parts) \in Nat
  BY PlainNext
<1>2. parts' = Append(parts, [tok |-> i, role |-> role]) /\ parts \in Seq(PartType)
  BY <1>1 DEF Take, Part, Inv
<1>3. Len(parts') = i /\ Len(parts') + 1 = i + 1
  BY <1>1, <1>2
<1>4. RolesKept'
  <2> SUFFICES ASSUME NEW k \in 1..i PROVE parts'[k].role = source.roles[k]
    BY <1>3 DEF RolesKept
  <2>1. CASE k = i
    BY <1>1, <1>2, <2>1
  <2>2. CASE k # i
    <3>1. k \in 1..Len(parts) /\ parts'[k] = parts[k]
      BY <1>1, <1>2, <2>2
    <3> QED
      BY <3>1 DEF WrittenInv, RolesKept
  <2> QED
    BY <2>1, <2>2
<1>5. reader' \notin Stopped => Ready(Len(parts) + 1)'
  BY <1>3 DEF Stopped
<1> QED
  BY <1>4, <1>5 DEF WrittenInv

LEMMA WrittenKeep ==
  ASSUME Inv, source.plain, WrittenInv, reader \notin Stopped,
         NEW i, i = Len(parts) + 1, Keep, source' = source, reader' \notin {"error", "end"},
         reader' # "unfit" => Ready(i)'
  PROVE  WrittenInv'
<1>1. parts' = parts
  BY DEF Keep
<1>2. RolesKept'
  BY <1>1 DEF WrittenInv, RolesKept
<1>3. reader' \notin Stopped => Ready(Len(parts) + 1)'
  BY <1>1 DEF Stopped
<1> QED
  BY <1>2, <1>3 DEF WrittenInv

(* Behind the head of a statement an operand begins: nothing of it has     *)
(* been read.                                                              *)
LEMMA TermBegins ==
  ASSUME NEW i \in Nat \ {0}, source' = source, reader' = "term",
         inst' \in {"mov", "inc", "jmp", "ret", "equ", "db"}, nth' = 2 => inst' \in {"mov", "jmp"},
         i > 1, source.roles[i-1] # Role', Is(source, i, Pieces, Role'),
         Of(source, i - 1, {inst'})
  PROVE  Ready(i)'
<1>1. \A k \in 1..(i-1) : (i-1) \in k..(i-1)
  OBVIOUS
<1>2. \A k \in 1..(i-1) : ~(\A j \in k..(i-1) : source'.roles[j] = Role')
  BY <1>1
<1>3. FullKnows(i)'
  BY <1>2, Zenon DEF FullKnows
<1>4. InTerm(i)'
  BY <1>3 DEF InTerm
<1> QED
  BY <1>4 DEF Ready

LEMMA KeyWritten ==
  ASSUME Inv, source.plain, WrittenInv, Key
  PROVE  WrittenInv'
<1>1. PICK i : i = Len(parts) + 1
  OBVIOUS
<1>2. /\ reader = "line" /\ reader \notin Stopped /\ tk \in Keys /\ Take("key")
      /\ inst' = tk /\ nth' = 1 /\ full' = FALSE /\ source' = source
      /\ IF tk = "cli" THEN reader' \in {"line", "unfit"} ELSE reader' = HandlerOf[tk]
  BY DEF Key, Stopped, Term, Back, Go
<1>3. i \in Nat \ {0} /\ tk = source.tokens[i] /\ tk # "END" /\ Follow(source, i)
  BY <1>1, <1>2, PlainNext DEF Keys, Handled
<1>4. source.roles[i] = "key"
  BY <1>1, <1>2, <1>3 DEF WrittenInv, Ready, Opens, Is, Labels, Keys, Handled
<1>5. BehindKey(source, i)
  BY <1>3, <1>4 DEF Follow
<1>6. Of(source, i, {tk})
  BY <1>3, <1>4, HeadOf DEF Heads
<1>7. (i + 1) - 1 = i /\ i + 1 \in Nat \ {0} /\ i + 1 > 1
  BY <1>3
<1>8. reader' \notin {"error", "end"} /\ (reader' # "unfit" => Ready(i + 1)')
  <2>1. CASE tk = "cli"
    <3>1. Opens(source, i + 1)
      BY <1>3, <1>5, <2>1 DEF BehindKey, Handled
    <3> QED
      BY <1>2, <2>1, <3>1 DEF Ready
  <2>2. CASE tk \in {"mov", "inc", "jmp"}
    <3>1. reader' = "term" /\ Role' = "operand1"
      BY <1>2, <2>2 DEF HandlerOf, Keys, Handled, Role
    <3>2. Is(source, i + 1, Pieces, "operand1")
      BY <1>3, <1>5, <2>2 DEF BehindKey, Handled
    <3>3. source.roles[(i + 1) - 1] # Role' /\ Of(source, (i + 1) - 1, {inst'})
      BY <1>2, <1>4, <1>6, <1>7, <3>1
    <3> QED
      <4>1. inst' \in {"mov", "inc", "jmp", "ret", "equ", "db"} /\ nth' # 2
        BY <1>2, <2>2
      <4>2. Is(source, i + 1, Pieces, Role')
        BY <3>1, <3>2
      <4> QED
        BY <1>2, <1>7, <3>1, <3>3, <4>1, <4>2, TermBegins
  <2>3. CASE tk \in {"org", "bits"}
    <3>1. reader' = "number"
      BY <1>2, <2>3 DEF HandlerOf, Keys, Handled
    <3>2. Is(source, i + 1, Nums, "number") /\ (tk = "bits" => source.tokens[i + 1] = "width")
      BY <1>3, <1>5, <2>3 DEF BehindKey, Handled, Is, Nums
    <3> QED
      BY <1>2, <3>1, <3>2 DEF Ready
  <2>4. CASE tk = "ret"
    <3>1. reader' = "ret"
      BY <1>2, <2>4 DEF HandlerOf, Keys, Handled
    <3>2. Is(source, i + 1, Pieces, "operand1") \/ Over(source, i + 1)
      BY <1>3, <1>5, <2>4 DEF BehindKey, Handled
    <3>3. source.roles[(i + 1) - 1] = "key" /\ Of(source, (i + 1) - 1, {inst'})
      BY <1>2, <1>4, <1>6, <1>7
    <3> QED
      BY <1>2, <1>7, <2>4, <3>1, <3>2, <3>3 DEF Ready
  <2>5. CASE tk = "db"
    <3>1. reader' = "data"
      BY <1>2, <2>5 DEF HandlerOf, Keys, Handled
    <3>2. Datum(source, i + 1)
      BY <1>3, <1>5, <2>5 DEF BehindKey, Handled
    <3>3. InData(i + 1)'
      BY <1>2, <1>4, <1>7, <3>2 DEF InData, Datum
    <3>4. Of(source, (i + 1) - 1, {inst'})
      BY <1>2, <1>6, <1>7
    <3> QED
      BY <1>2, <1>7, <2>5, <3>1, <3>3, <3>4 DEF Ready
  <2>6. CASE tk \notin Handled
    <3>1. reader' = "name"
      BY <1>2, <2>6 DEF HandlerOf, Keys, Handled
    <3>2. Is(source, i + 1, {"equ"}, "equ") \/ Is(source, i + 1, {"db"}, "db")
      BY <1>3, <1>5, <2>6 DEF BehindKey, Handled
    <3> QED
      BY <1>2, <3>1, <3>2 DEF Ready
  <2> QED
    BY <1>2, <2>1, <2>2, <2>3, <2>4, <2>5, <2>6 DEF Handled
<1> QED
  BY <1>1, <1>2, <1>4, <1>8, WrittenTake DEF Roles

(* The readers between two statements, and those of one token more.        *)
LEMMA OneWritten ==
  ASSUME Inv, source.plain, WrittenInv, Label \/ Dot \/ LineEnd \/ Processor \/ Number
  PROVE  WrittenInv'
<1>1. PICK i : i = Len(parts) + 1
  OBVIOUS
<1>2. reader \notin Stopped /\ Ready(i) /\ source' = source
  BY <1>1 DEF Label, Dot, LineEnd, Processor, Number, Stay, Stopped, WrittenInv
<1>3. /\ i \in Nat \ {0} /\ tk = source.tokens[i]
      /\ tk # "END" => Follow(source, i)
  BY <1>1, <1>2, PlainNext
<1>4. reader \in Unaware => NextTk = tk /\ Ask = pos + 1 /\ ~token_kept
  BY DEF Inv, NextTk, tk, Ask
<1>5. CASE Label
  <2>1. Take("label") /\ source.roles[i] = "label" /\ tk # "END" /\ reader' \in {"line", "unfit"}
    BY <1>2, <1>3, <1>5 DEF Label, Ready, Opens, Is, Labels, Keys, Handled, Back
  <2>2. Opens(source, i + 1)
    BY <1>3, <2>1 DEF Follow
  <2>3. reader' # "unfit" => Ready(i + 1)'
    BY <1>2, <2>1, <2>2 DEF Ready
  <2> QED
    BY <1>1, <1>2, <2>1, <2>3, WrittenTake DEF Roles
<1>6. CASE Dot
  <2>1. Take("dot") /\ source.roles[i] = "dot" /\ tk # "END" /\ reader' = "dot"
    BY <1>2, <1>3, <1>6 DEF Dot, Ready, Opens, Is, Labels, Keys, Handled, Go
  <2>2. Is(source, i + 1, {"cpu"}, "cpu")
    BY <1>3, <2>1 DEF Follow
  <2>3. Ready(i + 1)'
    BY <1>2, <2>1, <2>2 DEF Ready
  <2> QED
    BY <1>1, <1>2, <2>1, <2>3, WrittenTake DEF Roles
<1>7. CASE LineEnd
  <2>1. Take("eol") /\ source.roles[i] = "eol" /\ tk # "END" /\ reader' = "line"
    BY <1>2, <1>3, <1>7 DEF LineEnd, Ready, Opens, Is, Labels, Keys, Handled, Go
  <2>2. Opens(source, i + 1)
    BY <1>3, <2>1 DEF Follow
  <2>3. Ready(i + 1)'
    BY <1>2, <2>1, <2>2 DEF Ready
  <2> QED
    BY <1>1, <1>2, <2>1, <2>3, WrittenTake DEF Roles
<1>8. CASE Processor
  <2>1. reader \in Unaware /\ tk = "cpu" /\ source.roles[i] = "cpu"
    BY <1>2, <1>3, <1>8 DEF Processor, Unaware, Ready, Is
  <2>2. Take("cpu") /\ reader' = "line"
    BY <1>4, <1>8, <2>1 DEF Processor, TakeNext, Take, Go
  <2>3. Opens(source, i + 1)
    BY <1>3, <2>1 DEF Follow
  <2>4. Ready(i + 1)'
    BY <1>2, <2>2, <2>3 DEF Ready
  <2> QED
    BY <1>1, <1>2, <2>1, <2>2, <2>4, WrittenTake DEF Roles
<1>9. CASE Number
  <2>1. /\ reader \in Unaware /\ tk \in Nums /\ (inst = "bits" => tk = "width")
        /\ source.roles[i] = "number"
    BY <1>2, <1>3, <1>9 DEF Number, Unaware, Ready, Is
  <2>2. TakeNext("number") /\ reader' \in {"line", "unfit"}
    BY <1>4, <1>9, <2>1 DEF Number, Back
  <2>3. Take("number")
    BY <1>4, <2>1, <2>2 DEF TakeNext, Take
  <2>4. Opens(source, i + 1)
    BY <1>3, <2>1 DEF Follow, Nums
  <2>5. reader' # "unfit" => Ready(i + 1)'
    BY <1>2, <2>2, <2>4 DEF Ready
  <2> QED
    BY <1>1, <1>2, <2>1, <2>2, <2>3, <2>5, WrittenTake DEF Roles
<1> QED
  BY <1>5, <1>6, <1>7, <1>8, <1>9

LEMMA EndWritten ==
  ASSUME Inv, source.plain, WrittenInv, End
  PROVE  WrittenInv'
<1>1. PICK i : i = Len(parts) + 1
  OBVIOUS
<1>2. reader = "line" /\ reader \notin Stopped /\ tk = "END" /\ Take("end") /\ reader' = "end"
      /\ source' = source
  BY DEF End, Go, Stay, Stopped
<1>3. i \in Nat \ {0} /\ Ask = i /\ tk = source.tokens[i] /\ i = Len(source.roles)
      /\ Len(parts) \in Nat
  BY <1>1, <1>2, PlainNext
<1>4. source.roles[i] = "end"
  BY <1>1, <1>2, <1>3 DEF WrittenInv, Ready, Opens, Is, Labels, Keys, Handled
<1>5. parts' = Append(parts, [tok |-> i, role |-> "end"]) /\ parts \in Seq(PartType)
  BY <1>2, <1>3 DEF Take, Part, Inv
<1>6. Len(parts') = i
  BY <1>1, <1>3, <1>5
<1>7. RolesKept'
  <2> SUFFICES ASSUME NEW k \in 1..i PROVE parts'[k].role = source.roles[k]
    BY <1>2, <1>6 DEF RolesKept
  <2>1. CASE k = i
    BY <1>1, <1>3, <1>4, <1>5, <2>1
  <2>2. CASE k # i
    <3>1. k \in 1..Len(parts) /\ parts'[k] = parts[k]
      BY <1>1, <1>3, <1>5, <2>2
    <3> QED
      BY <3>1 DEF WrittenInv, RolesKept
  <2> QED
    BY <2>1, <2>2
<1> QED
  BY <1>2, <1>3, <1>6, <1>7 DEF WrittenInv, Stopped

LEMMA NameWritten ==
  ASSUME Inv, source.plain, WrittenInv, Name
  PROVE  WrittenInv'
<1>1. PICK i : i = Len(parts) + 1
  OBVIOUS
<1>2. reader = "name" /\ reader \notin Stopped /\ Ready(i)
  BY <1>1 DEF Name, Stopped, WrittenInv
<1>3. /\ i \in Nat \ {0} /\ tk = source.tokens[i]
      /\ tk # "END" => Follow(source, i)
  BY <1>1, <1>2, PlainNext
<1>4. tk \in {"equ", "db"} /\ source.roles[i] = tk /\ Follow(source, i)
  BY <1>2, <1>3 DEF Ready, Is
<1>5. /\ Take(tk) /\ inst' = tk /\ nth' = 1 /\ source' = source
      /\ reader' = IF tk = "equ" THEN "term" ELSE "data"
  BY <1>4 DEF Name, Term, Go
<1>6. (i + 1) - 1 = i /\ i + 1 \in Nat \ {0} /\ i + 1 > 1
  BY <1>3
<1>7. Of(source, (i + 1) - 1, {inst'})
  BY <1>3, <1>4, <1>5, <1>6, HeadOf DEF Heads
<1>8. CASE tk = "equ"
  <2>1. Is(source, i + 1, Pieces, "operand1")
    BY <1>4, <1>8 DEF Follow
  <2>2. Role' = "operand1" /\ source.roles[(i + 1) - 1] # Role'
    BY <1>4, <1>5, <1>6, <1>8 DEF Role
  <2>3. Ready(i + 1)'
    BY <1>5, <1>6, <1>7, <1>8, <2>1, <2>2, TermBegins
  <2> QED
    BY <1>1, <1>2, <1>4, <1>5, <1>8, <2>3, WrittenTake DEF Roles
<1>9. CASE tk = "db"
  <2>1. Datum(source, i + 1)
    BY <1>4, <1>9 DEF Follow
  <2>2. InData(i + 1)'
    BY <1>4, <1>5, <1>6, <1>9, <2>1 DEF InData, Datum
  <2>3. Ready(i + 1)'
    BY <1>5, <1>6, <1>7, <1>9, <2>2 DEF Ready
  <2> QED
    BY <1>1, <1>2, <1>4, <1>5, <1>9, <2>3, WrittenTake DEF Roles
<1> QED
  BY <1>4, <1>8, <1>9

LEMMA RetWritten ==
  ASSUME Inv, source.plain, WrittenInv, Ret
  PROVE  WrittenInv'
<1>1. PICK i : i = Len(parts) + 1
  OBVIOUS
<1>2. reader = "ret" /\ reader \notin Stopped /\ Ready(i) /\ reader \in Unaware
  BY <1>1 DEF Ret, Stopped, WrittenInv, Unaware
<1>3. i \in Nat \ {0} /\ tk = source.tokens[i]
  BY <1>1, <1>2, PlainNext
<1>4. NextTk = tk /\ Ask = pos + 1 /\ ~token_kept
  BY <1>2 DEF Inv, NextTk, tk, Ask
<1>5. /\ inst = "ret" /\ source.roles[i-1] = "key" /\ i > 1 /\ Of(source, i - 1, {inst})
      /\ Is(source, i, Pieces, "operand1") \/ Over(source, i)
  BY <1>2 DEF Ready
<1>6. tk # "invalid" /\ (tk \in {"LNEND", "END"} <=> Over(source, i))
  BY <1>3, <1>5 DEF Over, Opens, Is, Pieces, Keys, Handled, Nums, Labels
<1>7. /\ Keep /\ inst' = "ret" /\ nth' = 1 /\ source' = source
      /\ reader' = IF tk \in {"LNEND", "END"} THEN "line" ELSE "term"
  BY <1>4, <1>6 DEF Ret, Keep, Term, Go
<1>8. Ready(i)'
  <2>1. CASE Over(source, i)
    BY <1>6, <1>7, <2>1 DEF Ready, Over
  <2>2. CASE ~Over(source, i)
    <3>1. Role' = "operand1"
      BY <1>7 DEF Role
    <3> QED
      BY <1>3, <1>5, <1>6, <1>7, <2>2, <3>1, TermBegins
  <2> QED
    BY <2>1, <2>2
<1> QED
  BY <1>1, <1>2, <1>7, <1>8, WrittenKeep

(* Nothing but what can end it stands behind an operand. *)
LEMMA OperandEnds ==
  ASSUME NEW i \in Nat \ {0}, source.roles[i] = Role, BehindOperand(source, i),
         inst \in {"mov", "inc", "jmp", "ret", "equ", "db"}, nth = 2 => inst \in {"mov", "jmp"},
         nth \in {1, 2}, Of(source, i, {inst})
  PROVE  Is(source, i + 1, Pieces, Role) \/ (Whole(source, i) /\ TermEnds(i + 1))
<1>1. \A x : Of(source, i, {x}) => x = inst
  BY OneHead
<1>2. CASE Is(source, i + 1, Pieces, Role)
  BY <1>2
<1>3. CASE ~Is(source, i + 1, Pieces, Role)
  <2>1. /\ Whole(source, i)
        /\ \/ Role # "item" /\ Leaves(source, i + 1)
           \/ Role = "operand1" /\ inst = "mov" /\ Is(source, i + 1, {","}, "sep")
           \/ Role = "operand1" /\ inst = "jmp" /\ Is(source, i + 1, {":"}, "colon")
           \/ Role = "item" /\ (Over(source, i + 1) \/ Is(source, i + 1, {","}, "sep"))
    BY <1>1, <1>3 DEF BehindOperand
  <2>2. CASE inst = "db"
    <3>1. Role = "item" /\ AfterTerm = "data"
      BY <2>2 DEF Role, AfterTerm
    <3> QED
      BY <2>1, <3>1 DEF TermEnds
  <2>3. CASE inst # "db" /\ nth = 2
    <3>1. Role = "operand2" /\ AfterTerm = "line"
      BY <2>3 DEF Role, AfterTerm
    <3> QED
      BY <2>1, <3>1 DEF TermEnds
  <2>4. CASE inst # "db" /\ nth = 1
    <3>1. Role = "operand1"
      BY <2>4 DEF Role
    <3>2. AfterTerm = IF inst = "mov" THEN "sep" ELSE IF inst = "jmp" THEN "colon" ELSE "line"
      BY <2>4 DEF AfterTerm
    <3> QED
      BY <2>1, <3>1, <3>2 DEF TermEnds
  <2> QED
    BY <2>2, <2>3, <2>4
<1> QED
  BY <1>2, <1>3

LEMMA PieceWritten ==
  ASSUME Inv, source.plain, WrittenInv, TermPiece
  PROVE  WrittenInv'
<1>1. PICK i : i = Len(parts) + 1
  OBVIOUS
<1>2. /\ reader = "term" /\ reader \notin Stopped /\ Ready(i) /\ tk \in Pieces /\ Take(Role)
      /\ reader' \in {"term", "unfit"} /\ full' = (full \/ tk \notin Silent)
      /\ source' = source /\ inst' = inst /\ nth' = nth /\ nth \in {1, 2}
  BY <1>1 DEF TermPiece, Stopped, WrittenInv, Back, Inv, TypeOK
<1>3. /\ i \in Nat \ {0} /\ tk = source.tokens[i] /\ tk # "END" /\ Follow(source, i)
  BY <1>1, <1>2, PlainNext DEF Pieces, Keys, Handled, Nums
<1>4. InTerm(i) /\ i > 1 /\ Of(source, i - 1, {inst})
  BY <1>2 DEF Ready
<1>5. source.roles[i] = Role /\ Role \in {"operand1", "operand2", "item"}
  <2>1. ~TermEnds(i)
    <3>1. tk \notin {",", ":", "LNEND", "END", "db"}
      BY <1>2 DEF Pieces, Keys, Handled, Nums
    <3>2. AfterTerm \in {"sep", "colon", "data", "line"}
      BY DEF AfterTerm
    <3> QED
      BY <1>3, <3>1, <3>2 DEF TermEnds, Is, Leaves, Over
  <2> QED
    BY <1>4, <2>1 DEF InTerm, Is, Role
<1>6. Role' = Role /\ AfterTerm' = AfterTerm
  BY <1>2 DEF Role, AfterTerm
<1>7. (i + 1) - 1 = i /\ i + 1 \in Nat \ {0} /\ i + 1 > 1
  BY <1>3
<1>8. Of(source, i, {inst})
  BY <1>3, <1>4, <1>5, NextOf DEF Heads
<1>9. FullKnows(i + 1)'
  <2> SUFFICES ASSUME NEW k \in 1..i, source.tokens[k] \notin Silent, \A j \in k..i : source.roles[j] = Role
               PROVE  full'
    BY <1>2, <1>6, <1>7 DEF FullKnows
  <2>1. CASE k = i
    BY <1>2, <1>3, <2>1
  <2>2. CASE k # i
    <3>1. k \in 1..(i-1) /\ \A j \in k..(i-1) : j \in k..i
      BY <1>3, <2>2
    <3>2. full
      BY <1>4, <3>1 DEF InTerm, FullKnows
    <3> QED
      BY <1>2, <3>2
  <2> QED
    BY <2>1, <2>2
<1>10. Is(source, i + 1, Pieces, Role) \/ (full' /\ TermEnds(i + 1))
  <2>1. BehindOperand(source, i)
    BY <1>3, <1>5 DEF Follow
  <2>2. Is(source, i + 1, Pieces, Role) \/ (Whole(source, i) /\ TermEnds(i + 1))
    BY <1>2, <1>3, <1>4, <1>5, <1>8, <2>1, OperandEnds DEF InTerm
  <2>3. Whole(source, i) => full'
    <3> SUFFICES ASSUME NEW k \in 1..i, source.tokens[k] \notin Silent,
                        \A j \in k..i : source.roles[j] = source.roles[i]
                 PROVE  full'
      BY DEF Whole
    <3>1. \A j \in k..i : source.roles[j] = Role
      BY <1>5
    <3> QED
      BY <1>2, <1>6, <1>7, <1>9, <3>1 DEF FullKnows
  <2> QED
    BY <2>2, <2>3
<1>11. TermEnds(i + 1) => TermEnds(i + 1)'
  BY <1>2, <1>6 DEF TermEnds
<1>12. InTerm(i + 1)'
  BY <1>2, <1>4, <1>6, <1>9, <1>10, <1>11 DEF InTerm
<1>13. reader' # "unfit" => Ready(i + 1)'
  BY <1>2, <1>7, <1>8, <1>12 DEF Ready
<1> QED
  BY <1>1, <1>2, <1>5, <1>13, WrittenTake DEF Roles

LEMMA TermEndWritten ==
  ASSUME Inv, source.plain, WrittenInv, TermEnd
  PROVE  WrittenInv'
<1>1. PICK i : i = Len(parts) + 1
  OBVIOUS
<1>2. /\ reader = "term" /\ reader \notin Stopped /\ Ready(i) /\ tk \in Closers /\ Keep
      /\ source' = source /\ inst' = inst /\ nth' = nth
      /\ IF full THEN reader' \in {AfterTerm, "unfit"} ELSE reader' = "unfit"
  BY <1>1 DEF TermEnd, Stopped, WrittenInv, Back, Stay, Go
<1>3. i \in Nat \ {0} /\ tk = source.tokens[i]
  BY <1>1, <1>2, PlainNext
<1>4. InTerm(i) /\ i > 1 /\ Of(source, i - 1, {inst})
  BY <1>2 DEF Ready
<1>5. TermEnds(i)
  <2>1. ~Is(source, i, Pieces, Role)
    BY <1>2, <1>3 DEF Is, Pieces, Closers, Keys, Handled, Nums
  <2> QED
    BY <1>4, <2>1 DEF InTerm
<1>6. AfterTerm \in {"sep", "colon", "data", "line"}
  BY DEF AfterTerm
<1>7. /\ AfterTerm = "sep" => inst = "mov"
      /\ AfterTerm = "colon" => inst = "jmp"
      /\ AfterTerm = "data" => inst = "db"
  BY DEF AfterTerm
<1>8. ASSUME reader' = AfterTerm
      PROVE  Ready(i)'
  <2>1. CASE AfterTerm = "sep"
    BY <1>2, <1>4, <1>5, <1>7, <1>8, <2>1 DEF Ready, TermEnds
  <2>2. CASE AfterTerm = "colon"
    BY <1>2, <1>4, <1>5, <1>7, <1>8, <2>2 DEF Ready, TermEnds
  <2>3. CASE AfterTerm = "data"
    <3>1. InData(i)'
      BY <1>2, <1>5, <2>3 DEF TermEnds, InData
    <3> QED
      BY <1>2, <1>4, <1>7, <1>8, <2>3, <3>1 DEF Ready
  <2>4. CASE AfterTerm = "line"
    <3>1. Opens(source, i)
      BY <1>5, <2>4 DEF TermEnds, Leaves
    <3> QED
      BY <1>2, <1>8, <2>4, <3>1 DEF Ready
  <2> QED
    BY <1>6, <2>1, <2>2, <2>3, <2>4
<1>9. reader' \notin {"error", "end"} /\ (reader' # "unfit" => Ready(i)')
  BY <1>2, <1>6, <1>8
<1> QED
  BY <1>1, <1>2, <1>9, WrittenKeep

LEMMA BetweenWritten ==
  ASSUME Inv, source.plain, WrittenInv, Sep \/ Colon
  PROVE  WrittenInv'
<1>1. PICK i : i = Len(parts) + 1
  OBVIOUS
<1>2. reader \notin Stopped /\ Ready(i) /\ reader \in {"sep", "colon"}
  BY <1>1 DEF Sep, Colon, Stopped, WrittenInv
<1>3. i \in Nat \ {0} /\ tk = source.tokens[i] /\ (tk # "END" => Follow(source, i))
  BY <1>1, <1>2, PlainNext
<1>4. i > 1 /\ Of(source, i - 1, {inst})
  BY <1>2 DEF Ready
<1>5. PICK c : c = IF reader = "sep" THEN "," ELSE ":"
  OBVIOUS
<1>6. CASE tk = c
  <2>1. PICK role \in {"sep", "colon"} : role = reader
    BY <1>2
  <2>2. source.roles[i] = role /\ inst = IF reader = "sep" THEN "mov" ELSE "jmp"
    BY <1>2, <1>3, <1>5, <1>6, <2>1 DEF Ready, Is, Leaves
  <2>3. /\ Take(role) /\ inst' = inst /\ nth' = 2 /\ source' = source
        /\ reader' \in {"term", "unfit"}
    BY <1>5, <1>6, <2>1 DEF Sep, Colon, Term, Go, Back
  <2>4. Is(source, i + 1, Pieces, "operand2")
    <3>1. Follow(source, i)
      BY <1>3, <1>5, <1>6
    <3>2. CASE role = "colon"
      BY <2>2, <3>1, <3>2 DEF Follow
    <3>3. CASE role = "sep"
      <4>1. Of(source, i, {"mov"})
        BY <1>3, <1>4, <2>1, <2>2, <3>3, NextOf DEF Heads
      <4>2. ~Of(source, i, {"db"})
        BY <1>3, <4>1, OneHead
      <4> QED
        BY <2>2, <3>1, <3>3, <4>2 DEF Follow
    <3> QED
      BY <2>1, <3>2, <3>3
  <2>5. Role' = "operand2"
    BY <2>2, <2>3 DEF Role
  <2>6. (i + 1) - 1 = i /\ i + 1 \in Nat \ {0} /\ i + 1 > 1
    BY <1>3
  <2>7. Of(source, (i + 1) - 1, {inst'})
    BY <1>3, <1>4, <2>1, <2>2, <2>3, <2>6, NextOf DEF Heads
  <2>8. inst' \in {"mov", "jmp"} /\ source.roles[(i + 1) - 1] # Role'
    BY <2>1, <2>2, <2>3, <2>5, <2>6
  <2>9. reader' # "unfit" => Ready(i + 1)'
    BY <2>3, <2>4, <2>5, <2>6, <2>7, <2>8, TermBegins
  <2> QED
    BY <1>1, <1>2, <2>2, <2>3, <2>9, WrittenTake DEF Roles
<1>7. CASE tk # c
  <2>1. Keep /\ source' = source /\ reader' \in {"line", "unfit"}
    BY <1>5, <1>7 DEF Sep, Colon, Stay, Back
  <2>2. Opens(source, i)
    BY <1>2, <1>3, <1>5, <1>7 DEF Ready, Is, Leaves
  <2>3. reader' # "unfit" => Ready(i)'
    BY <2>1, <2>2 DEF Ready
  <2> QED
    BY <1>1, <1>2, <2>1, <2>3, WrittenKeep
<1> QED
  BY <1>6, <1>7

LEMMA DataWritten ==
  ASSUME Inv, source.plain, WrittenInv, Data
  PROVE  WrittenInv'
<1>1. PICK i : i = Len(parts) + 1
  OBVIOUS
<1>2. reader = "data" /\ reader \notin Stopped /\ Ready(i)
  BY <1>1 DEF Data, Stopped, WrittenInv
<1>3. i \in Nat \ {0} /\ tk = source.tokens[i] /\ (tk # "END" => Follow(source, i))
  BY <1>1, <1>2, PlainNext
<1>4. InData(i) /\ i > 1 /\ inst = "db" /\ Of(source, i - 1, {"db"})
  BY <1>2 DEF Ready
<1>5. (i + 1) - 1 = i /\ i + 1 \in Nat \ {0} /\ i + 1 > 1
  BY <1>3
<1>6. CASE tk = ","
  <2>1. source.roles[i] = "sep" /\ Follow(source, i)
    BY <1>3, <1>4, <1>6 DEF InData, Is, Over, Labels, Pieces, Keys, Handled, Nums
  <2>2. Take("sep") /\ reader' = "data" /\ inst' = inst /\ source' = source
    BY <1>6 DEF Data, Go, Stay, Labels
  <2>3. Of(source, i, {"db"})
    BY <1>3, <1>4, <2>1, NextOf DEF Heads
  <2>4. ~Of(source, i, {"mov"})
    BY <1>3, <2>3, OneHead
  <2>5. Datum(source, i + 1)
    BY <2>1, <2>4 DEF Follow
  <2>6. InData(i + 1)'
    BY <1>5, <2>1, <2>2, <2>5 DEF InData, Datum
  <2>7. Ready(i + 1)'
    BY <1>4, <1>5, <2>2, <2>3, <2>6 DEF Ready
  <2> QED
    BY <1>1, <1>2, <2>1, <2>2, <2>7, WrittenTake DEF Roles
<1>7. CASE tk = "str"
  <2>1. source.roles[i] = "text" /\ Follow(source, i)
    BY <1>3, <1>4, <1>7 DEF InData, Is, Over, Labels
  <2>2. Take("text") /\ reader' \in {"data", "unfit"} /\ inst' = inst /\ source' = source
    BY <1>7 DEF Data, Back, Stay, Labels
  <2>3. Of(source, i, {"db"})
    BY <1>3, <1>4, <2>1, NextOf DEF Heads
  <2>4. InData(i + 1)'
    BY <2>1, <2>2 DEF Follow, InData
  <2>5. reader' # "unfit" => Ready(i + 1)'
    BY <1>4, <1>5, <2>2, <2>3, <2>4 DEF Ready
  <2> QED
    BY <1>1, <1>2, <2>1, <2>2, <2>5, WrittenTake DEF Roles
<1>8. CASE tk \in {"LNEND", "END"} \cup Labels
  <2>1. Opens(source, i)
    BY <1>3, <1>4, <1>8 DEF InData, Is, Over, Labels, Pieces, Keys, Handled, Nums, Opens
  <2>2. Keep /\ reader' = "line" /\ source' = source
    BY <1>8 DEF Data, Go, Stay, Labels
  <2>3. Ready(i)'
    BY <2>1, <2>2 DEF Ready
  <2> QED
    BY <1>1, <1>2, <2>2, <2>3, WrittenKeep
<1>9. CASE tk \notin {",", "str", "LNEND", "END"} \cup Labels
  <2>1. Is(source, i, Pieces, "item") /\ source.roles[i-1] # "item" /\ tk # "invalid"
    BY <1>3, <1>4, <1>9 DEF InData, Is, Over, Pieces, Keys, Handled, Nums
  <2>2. Keep /\ reader' = "term" /\ inst' = "db" /\ nth' = 1 /\ source' = source
    BY <1>9, <2>1 DEF Data, Go, Term
  <2>3. Role' = "item"
    BY <2>2 DEF Role
  <2>4. Ready(i)'
    BY <1>3, <1>4, <2>1, <2>2, <2>3, TermBegins
  <2> QED
    BY <1>1, <1>2, <2>2, <2>4, WrittenKeep
<1> QED
  BY <1>6, <1>7, <1>8, <1>9

(* No reader stops at a token of a source that follows the syntax.         *)
LEMMA NeverRefused ==
  ASSUME Inv, source.plain, WrittenInv
  PROVE  ~NoLine /\ ~TermRefuses
<1>1. PICK i : i = Len(parts) + 1
  OBVIOUS
<1>2. reader \notin Stopped => tk = source.tokens[i] /\ Ready(i)
  BY <1>1, PlainNext DEF WrittenInv
<1>3. ~NoLine
  <2> SUFFICES ASSUME NoLine PROVE FALSE
    OBVIOUS
  <2>1. reader = "line" /\ Opens(source, i)
    BY <1>2 DEF NoLine, Ready, Stopped
  <2> QED
    BY <1>2, <2>1 DEF NoLine, Opens, Is, Stopped
<1>4. ~TermRefuses
  <2> SUFFICES ASSUME TermRefuses PROVE FALSE
    OBVIOUS
  <2>1. reader = "term" /\ InTerm(i)
    BY <1>2 DEF TermRefuses, Ready, Stopped
  <2>2. AfterTerm \in {"sep", "colon", "data", "line"}
    BY DEF AfterTerm
  <2> QED
    BY <1>2, <2>1, <2>2 DEF TermRefuses, InTerm, TermEnds, Is, Leaves, Over, Stopped, Closers
<1> QED
  BY <1>3, <1>4

LEMMA WrittenNext ==
  ASSUME Inv, source.plain => WrittenInv, [Next]_vars
  PROVE  (source.plain => WrittenInv)'
<1>1. source' = source
  BY DEF Next, vars, Key, Label, Dot, LineEnd, End, NoLine, Name, Processor, Number, Ret,
         TermPiece, TermRefuses, TermEnd, Sep, Colon, Data, NextPass, Stay, Term
<1> SUFFICES ASSUME source.plain PROVE WrittenInv'
  BY <1>1
<1>2. CASE NextPass
  <2>1. reader' = "line" /\ parts' = <<>> /\ Opens(source, 1)
    BY <1>2, SyntaxAssumption DEF NextPass, Inv, TypeOK
  <2>2. Len(parts') = 0 /\ Len(parts') + 1 = 1 /\ \A k \in 1..0 : FALSE
    BY <2>1
  <2>3. RolesKept'
    BY <2>2 DEF RolesKept
  <2>4. Ready(1)'
    BY <1>1, <2>1 DEF Ready
  <2> QED
    BY <2>1, <2>2, <2>3, <2>4 DEF WrittenInv
<1>3. CASE UNCHANGED vars
  <2>1. /\ reader' = reader /\ inst' = inst /\ nth' = nth /\ full' = full /\ parts' = parts
        /\ Role' = Role /\ AfterTerm' = AfterTerm
    BY <1>3 DEF vars, Role, AfterTerm
  <2>2. RolesKept'
    BY <1>1, <2>1 DEF WrittenInv, RolesKept
  <2>3. PICK i : i = Len(parts) + 1
    OBVIOUS
  <2>4. InTerm(i)' <=> InTerm(i)
    BY <1>1, <2>1 DEF InTerm, FullKnows, TermEnds
  <2>5. InData(i)' <=> InData(i)
    BY <1>1 DEF InData
  <2>6. Ready(i)' <=> Ready(i)
    BY <1>1, <2>1, <2>4, <2>5 DEF Ready
  <2>7. reader' \notin Stopped => Ready(Len(parts) + 1)'
    BY <2>1, <2>3, <2>6 DEF WrittenInv
  <2> QED
    BY <1>1, <2>1, <2>2, <2>7 DEF WrittenInv
<1> QED
  BY <1>2, <1>3, KeyWritten, OneWritten, EndWritten, NameWritten, RetWritten, PieceWritten,
     TermEndWritten, BetweenWritten, DataWritten, NeverRefused DEF Next

(* A source that follows the syntax is read as it was written, in every    *)
(* pass, however the readers hand the token behind an operand on.          *)
THEOREM ReadAsWritten == Spec => []PartsAsWritten
<1>1. Init => (source.plain => WrittenInv)
  <2> SUFFICES ASSUME Init, source.plain PROVE WrittenInv
    OBVIOUS
  <2>1. reader = "line" /\ parts = <<>> /\ Opens(source, 1)
    BY SyntaxAssumption DEF Init
  <2>2. Len(parts) = 0 /\ Len(parts) + 1 = 1 /\ \A k \in 1..0 : FALSE
    BY <2>1
  <2>3. RolesKept
    BY <2>2 DEF RolesKept
  <2>4. Ready(1)
    BY <2>1 DEF Ready
  <2> QED
    BY <2>1, <2>2, <2>3, <2>4 DEF WrittenInv
<1>2. Inv /\ (source.plain => WrittenInv) /\ [Next]_vars => (source.plain => WrittenInv)'
  BY WrittenNext
<1>3. Inv /\ (source.plain => WrittenInv) => PartsAsWritten
  <2> SUFFICES ASSUME Inv, source.plain, WrittenInv PROVE PartsAsWritten
    BY DEF PartsAsWritten
  <2>1. DOMAIN parts = 1..Len(parts)
    BY DEF Inv
  <2> QED
    BY <2>1 DEF WrittenInv, RolesKept, PartsAsWritten
<1> QED
  BY <1>1, <1>2, <1>3, Invariant, PTL DEF Spec
=============================================================================

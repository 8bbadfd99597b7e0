-------------------------------- MODULE BNum --------------------------------
(***************************************************************************)
(* Numbers: bsm_parse_num of bbuiltin.c, for the characters of a number    *)
(* token of BLexer.  "a" and "b" are the letters a and b, the ones a       *)
(* number may hold; the other hexadecimal digits are read as "a" is.       *)
(***************************************************************************)
EXTENDS BLexer, SequencesExt

CONSTANT Wrap   \* 2^64 in the code: v is a uint64_t

ASSUME WrapAssumption == Wrap \in Nat \ {0}

(* The difference of a character to '0', and the hexadecimal digit it is.  *)
Ascii == [c \in {"0", "1", "a", "b", "x", "h"} |->
            CASE c = "0" -> 0   [] c = "1" -> 1   [] c = "a" -> 49
              [] c = "b" -> 50  [] c = "x" -> 72  [] c = "h" -> 56]
Hex == [c \in {"0", "1", "a", "b"} |->
          CASE c = "0" -> 0 [] c = "1" -> 1 [] c = "a" -> 10 [] c = "b" -> 11]

Refused == [ok |-> FALSE, v |-> 0]
Value(v) == [ok |-> TRUE, v |-> v]

(* The loop: v * base and the next digit, in 64 bits.                      *)
Loop64(base, worth, s) ==
  LET v[i \in 0..Len(s)] == IF i = 0 THEN 0 ELSE (v[i-1] * base + worth[s[i]]) % Wrap
  IN  v[Len(s)]

Decimal(s) == Value(Loop64(10, Ascii, s))

_parse_hex(s) ==
  IF \A i \in DOMAIN s : s[i] \in DOMAIN Hex THEN Value(Loop64(16, Hex, s)) ELSE Refused

WithoutH(s) == IF Last(s) = "h" THEN Front(s) ELSE s

(* The prefix wins over the suffix without looking at it.                  *)
PrefixKeepsH(s) == IF Len(s) <= 2 THEN Refused ELSE _parse_hex(SubSeq(s, 3, Len(s)))

(* Behind 0x; an h at the end is left out.                                 *)
Prefixed(s) == IF Len(WithoutH(s)) <= 2 THEN Refused
                                        ELSE _parse_hex(SubSeq(WithoutH(s), 3, Len(WithoutH(s))))

HasPrefix(s) == Len(s) > 2 /\ s[1] = "0" /\ s[2] = "x"

bsm_parse_num(s) ==
  IF s = <<>> \/ Contains(s, ".") THEN Refused
  ELSE CASE HasPrefix(s)                       -> Prefixed(s)
         [] ~HasPrefix(s) /\ Last(s) = "h"     -> _parse_hex(Front(s))
         [] ~HasPrefix(s) /\ Last(s) = "b"     -> Refused
         [] OTHER                              -> Decimal(s)

-----------------------------------------------------------------------------
(* What a number says: its digits, each times its place, as far as 64 bits *)
(* hold it.                                                                *)
PlaceOf(base) == LET at[n \in Nat] == IF n = 0 THEN 1 ELSE base * at[n-1] IN at
Total(base, ds) ==
  LET sum[i \in 0..Len(ds)] ==
        IF i = 0 THEN 0 ELSE sum[i-1] + Hex[ds[i]] * PlaceOf(base)[Len(ds) - i]
  IN  sum[Len(ds)]

OfDigits(base, ds, C) ==
  IF ds # <<>> /\ ToSet(ds) \subseteq C THEN Value(Total(base, ds) % Wrap) ELSE Refused
Meant(s) ==
  CASE HasPrefix(s) -> OfDigits(16, SubSeq(s, 3, IF Last(s) = "h" THEN Len(s) - 1 ELSE Len(s)), DOMAIN Hex)
    [] ~HasPrefix(s) /\ Last(s) = "h" -> OfDigits(16, Front(s), DOMAIN Hex)
    [] ~HasPrefix(s) /\ Last(s) = "b" -> OfDigits(2, Front(s), Digits)
    [] OTHER -> OfDigits(10, s, Digits)

(* The ones bsm_parse_num reads otherwise: binary ones are refused, and    *)
(* letters without a mark are digits of a decimal number, as is the x of a *)
(* prefix with nothing behind it.                                          *)
OddNumber(s) ==
  /\ ~HasPrefix(s) /\ "." \notin ToSet(s)
  /\ IF Last(s) = "b" THEN ToSet(Front(s)) \subseteq Digits
                      ELSE Last(s) # "h" /\ ~(ToSet(s) \subseteq Digits)

(* A number token is worth what its author wrote, in the base its marks    *)
(* say, but for the odd ones: where the lexer ends a number, and which     *)
(* suffix bsm_parse_num looks for in which order, fit together.            *)
NumbersRead ==
  text.plain /\ status = "idle" /\ given > 0 /\ tk.type = "NUM" =>
    (bsm_parse_num(Said) = Meant(text.tokens[given].says)
       <=> ~OddNumber(text.tokens[given].says))
=============================================================================

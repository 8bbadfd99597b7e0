------------------------------- MODULE SymMap -------------------------------
(***************************************************************************)
(* What the assembler expects of its symbol table: a map from names to     *)
(* values in which a name, once put, stays (bctx_ensure_symbol and         *)
(* bctx_find_symbol in bctx.c; the variable sym of BPass).  With Lossy,    *)
(* the weaker promise that nothing is invented or altered: names get lost  *)
(* one at a time, in exchange for a new one or while the table is rebuilt, *)
(* and only a new name makes it rebuild.  A lookup takes no part in this.  *)
(***************************************************************************)
CONSTANTS Keys, Vals, Lossy, NoCall

VARIABLES
  map,        \* the names put so far, with their values
  call,       \* the element that is being put, or NoCall
  rebuilding  \* the table is moving what it holds to a larger one

Init == map = [k \in {} |-> k] /\ call = NoCall /\ rebuilding = FALSE

Ask(k, v) ==
  /\ call = NoCall /\ ~rebuilding
  /\ call' = [key |-> k, val |-> v]
  /\ UNCHANGED <<map, rebuilding>>

(* At most one element. *)
Single(S) == \A x, y \in S : x = y

(* The name gets its value; a new name may cost another one, and may make  *)
(* the table rebuild.                                                      *)
Put ==
  /\ call # NoCall
  /\ \E lost \in SUBSET (DOMAIN map \ {call.key}) :
       /\ Single(lost)
       /\ lost # {} => Lossy /\ call.key \notin DOMAIN map
       /\ map' = [x \in (DOMAIN map \ lost) \cup {call.key} |->
                    IF x = call.key THEN call.val ELSE map[x]]
  /\ rebuilding' \in BOOLEAN
  /\ rebuilding' => call.key \notin DOMAIN map
  /\ call' = NoCall

Lose ==
  /\ Lossy /\ rebuilding
  /\ \E k \in DOMAIN map : map' = [x \in DOMAIN map \ {k} |-> map[x]]
  /\ UNCHANGED <<call, rebuilding>>

Rebuilt ==
  /\ rebuilding /\ rebuilding' = FALSE
  /\ UNCHANGED <<map, call>>

Next == (\E k \in Keys, v \in Vals : Ask(k, v)) \/ Put \/ Lose \/ Rebuilt

Spec == Init /\ [][Next]_<<map, call, rebuilding>>
=============================================================================

-------------------------- MODULE MCWsSessionCache --------------------------
(***************************************************************************)
(* Four turns: three of one conversation, so that one attempt may come     *)
(* between the two locks of another's Put while a third holds the session  *)
(* that is displaced, and one of another conversation.                     *)
(***************************************************************************)
EXTENDS WsSessionCache, TLC

CONSTANTS a1, a2, a3, a4, c1, c2

TurnsOf == [a \in {a1, a2, a3, a4} |-> IF a = a4 THEN c2 ELSE c1]
Turns == Permutations({a1, a2, a3})
=============================================================================

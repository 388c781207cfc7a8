-------------------------- MODULE MCAmountExchange ---------------------------
(***************************************************************************)
(* All texts over a few characters: up to two before the point and three   *)
(* after it, further points among these; and some longer amounts in digits *)
(* for the page, which groups them and stops at the safe integers.         *)
(***************************************************************************)
EXTENDS AmountExchange

Wholes == SeqOf({0, 1, 5, Minus, Other}, 2)
Fractions == SeqOf({0, 5, Plus, Point, Other}, 3)

Long == {<<0, 1, 5, 0>>, <<5, 1, 0, 5>>, <<1, 0, 0, 5, 0, 0, 1>>, <<9, 9, 9, 9>>, <<9, 9, 9, 8>>}

MCTexts == {Text(w, FALSE, <<>>) : w \in Wholes \cup Long}
           \cup {Text(w, TRUE, f) : w \in Wholes, f \in Fractions}

ASSUME \A d \in Decimals : PowerOfTen[d] = 10^d
=============================================================================

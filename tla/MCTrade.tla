------------------------------- MODULE MCTrade -------------------------------
(* Three interchangeable players on one tile, with a bag, a box in it, and a *)
(* coin; the places 0, 1 and 3 are one, two and three squares apart.         *)
EXTENDS Trade, TLC

CONSTANTS bag, box, coin

MCItems == {bag, box, coin}
MCBags == {bag, box}
\* The box is another bag; the coin is of a kind of its own.
MCLook == (bag :> "bag") @@ (box :> "bag") @@ (coin :> "coin")
MCPlaces == {0, 1, 3}
MCStart == 1
MCHome == (bag :> 1) @@ (box :> bag) @@ (coin :> 1)

PlayerSymmetry == Permutations(Players)
=============================================================================

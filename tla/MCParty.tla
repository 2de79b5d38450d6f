------------------------------- MODULE MCParty -------------------------------
(* Party with interchangeable players on a line of three places; the level  *)
(* 1 does not go with the level 3.                                          *)
EXTENDS Party, TLC

MCStandings == {<<0, 3>>, <<1, 3>>, <<2, 3>>, <<1, 1>>}

PlayerSymmetry == Permutations(Players)
=============================================================================

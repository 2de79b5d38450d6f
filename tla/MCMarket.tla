------------------------------ MODULE MCMarket ------------------------------
(* Two players of different accounts.                                       *)
EXTENDS Market, TLC
CONSTANTS ann, ben
MCAccount == ann :> "ann" @@ ben :> "ben"
=============================================================================

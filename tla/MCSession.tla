------------------------------ MODULE MCSession ------------------------------
(* Session with interchangeable protocol objects, for the safety run.       *)
EXTENDS Session, TLC

ProtocolSymmetry == Permutations(Protocols)
=============================================================================

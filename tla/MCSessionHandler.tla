-------------------------- MODULE MCSessionHandler --------------------------
(* Small instances of SessionHandler for TLC. *)
EXTENDS SessionHandler, TLC

\* The clock moves by a watch dog interval and a bit.
Forward == {5}

IDSymmetry == Permutations(SessionID)
=============================================================================

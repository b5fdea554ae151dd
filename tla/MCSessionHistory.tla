-------------------------- MODULE MCSessionHistory --------------------------
(* Small instances of SessionHistory for TLC. *)
EXTENDS SessionHistory

Perms == Permutations(Turns)
=============================================================================

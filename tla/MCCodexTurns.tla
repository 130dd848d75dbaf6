----------------------------- MODULE MCCodexTurns -----------------------------
(* Two inputs for one thread of a conversation.                              *)
EXTENDS CodexTurns, TLC

CONSTANTS x, c, i1, i2

\* The inputs are interchangeable.
Alike == Permutations(Inputs)
=============================================================================

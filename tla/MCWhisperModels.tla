-------------------------- MODULE MCWhisperModels --------------------------
(***************************************************************************)
(* A small instance of WhisperModels for TLC: one model that is downloaded *)
(* and deleted, one that is always there, and two transcriptions.          *)
(***************************************************************************)
EXTENDS WhisperModels, TLC

CONSTANTS m1, m2, r1, r2, c1, c2, c3

\* Each model runs in one way.
SameModel == [w \in Wants |-> w]

AnyRequest == Permutations(Requests)
=============================================================================

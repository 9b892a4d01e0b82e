------------------------ MODULE MCTranscriptionWork ------------------------
(***************************************************************************)
(* Small instances of TranscriptionWork for TLC: a video whose plan asks   *)
(* for a review, and one that is transcribed and queued at once.           *)
(***************************************************************************)
EXTENDS TranscriptionWork, TLC

CONSTANTS a, b, pa, na, pb, t1, t2, k1

PlainNames == [i \in Inputs |-> IF i = a THEN pa ELSE pb]
SameNames == PlainNames
LanguageNames == [i \in Inputs |-> IF i = a THEN na ELSE pb]
AllTargets == [i \in Inputs |-> Targets]
=============================================================================

------------------------- MODULE MCTranslationQueue -------------------------
(***************************************************************************)
(* Small instances of TranslationQueue for TLC: two jobs whose outputs may *)
(* be the same file, since one of the jobs' languages has an older         *)
(* spelling that names the other's output.                                 *)
(***************************************************************************)
EXTENDS TranslationQueue, TLC

CONSTANTS j1, j2, o1, o2

TwoStandard == (j1 :> o1) @@ (j2 :> o2)
OwnSpelling == (j1 :> {o1}) @@ (j2 :> {o2})
AnyRun == {AllJobs}
SomeRuns == {AllJobs, {j1}}
TwoSpellings == (j1 :> {o1}) @@ (j2 :> {o1, o2})
=============================================================================

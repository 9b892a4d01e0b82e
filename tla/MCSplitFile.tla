---------------------------- MODULE MCSplitFile ----------------------------
(***************************************************************************)
(* Small instances of SplitFile for TLC: two machines, the first of which  *)
(* takes two requests at a time.                                           *)
(***************************************************************************)
EXTENDS SplitFile, TLC

CONSTANTS c1, c2

TwoAndOne == (c1 :> 2) @@ (c2 :> 1)
=============================================================================

--------------------------------- MODULE Totals ---------------------------------
(***************************************************************************)
(* SQL's SUM.                                                              *)
(***************************************************************************)
EXTENDS FiniteSetsExt

\* The sum of f over S.
Total(f, S) == MapThenSumSet(LAMBDA x : f[x], S)
================================================================================

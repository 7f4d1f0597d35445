------------------------------- MODULE Totals -------------------------------
(* Sums over the rows of a query (SELECT SUM). *)
EXTENDS Integers, FiniteSetsExt

\* The sum of the values f has on the set S.
Total(f, S) == MapThenSumSet(LAMBDA a : f[a], S)
=============================================================================

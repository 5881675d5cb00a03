------------------------------- MODULE Tally -------------------------------
(***************************************************************************)
(* Totals over a finite set, as the size of a set: a value of n is n cells *)
(* (x, 1) .. (x, n), and a negative value is none. No recursion: what a    *)
(* change of one value does to the total follows from the cardinality of   *)
(* disjoint unions.                                                        *)
(***************************************************************************)
EXTENDS Integers, FiniteSets

\* The cells of the values f[x], x in S.
Cells(f, S) == UNION {{x} \X (1..f[x]) : x \in S}

\* The sum of the positive values of f over S.
Tally(f, S) == Cardinality(Cells(f, S))
=============================================================================

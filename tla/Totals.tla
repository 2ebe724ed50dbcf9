------------------------------- MODULE Totals -------------------------------
(***************************************************************************)
(* The sum of the numbers of a sequence whose places belong to a set, as a *)
(* recursive function, so that its properties can be proved for every      *)
(* sequence (DataPathsProofs).                                             *)
(***************************************************************************)
EXTENDS Naturals, Sequences

\* The total of the first i numbers of s, by the total of i - 1.
Totalled(s, T, F, i) ==
    IF i = 0 THEN 0
    ELSE IF i \in T THEN F[i - 1] + s[i] ELSE F[i - 1]

Total(s, T) ==
    LET F[i \in 0 .. Len(s)] == Totalled(s, T, F, i) IN F[Len(s)]
=============================================================================

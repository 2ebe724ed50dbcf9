-------------------------------- MODULE Sift --------------------------------
(***************************************************************************)
(* The elements of a sequence that belong to a set, in their order: what   *)
(* SelectSeq computes, as a recursive function, so that its properties can *)
(* be proved for every sequence (SiftLemmas).                              *)
(***************************************************************************)
EXTENDS Naturals, Sequences

\* What is sifted of the first i elements of s, by what is sifted of i - 1.
Sifted(s, T, F, i) ==
    IF i = 0 THEN <<>>
    ELSE IF s[i] \in T THEN Append(F[i - 1], s[i]) ELSE F[i - 1]

Sift(s, T) ==
    LET F[i \in 0 .. Len(s)] == Sifted(s, T, F, i) IN F[Len(s)]
=============================================================================

------------------------------- MODULE MCFraming -------------------------------
(* One direction of a connection at the level of bytes, for TLC. *)
EXTENDS Framing, TLC
CONSTANTS w1, w2
\* The theorems about names, on all short ones.
ASSUME NamesChecked ==
    LET names == NamesUpTo(UsernameLen + 1) IN
    NamesKeptApart(names) /\ NamesReturnUnchanged(names)
Symmetry == Permutations(Writers)
===============================================================================

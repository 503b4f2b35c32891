------------------------------- MODULE MCPrice -------------------------------
(***************************************************************************)
(* The price oracle for TLC: its tokens are interchangeable.               *)
(***************************************************************************)
EXTENDS PriceProperties, TLC

MCSymmetry == Permutations(Quotes)
=============================================================================

---------------------------- MODULE MCChallenge ----------------------------
(***************************************************************************)
(* A field of 40961 elements, whose units have a subgroup of 2^13; sixteen *)
(* rows extended to thirty two; a layer folded by four and one by two; a   *)
(* final polynomial of two coefficients, read from two of the four values  *)
(* of the last layer.                                                      *)
(***************************************************************************)
EXTENDS Challenge

MCArities == <<2, 1>>

=============================================================================

------------------------------ MODULE MCDenwaApp -------------------------------
(* One connection at a time: a state with two is reached, checked and left.  *)
EXTENDS DenwaApp

OneConnection == Cardinality(Live(http)) <= 1
================================================================================

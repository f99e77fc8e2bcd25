------------------------------- MODULE MCConnect -------------------------------
(* Values of the constants for model checking Connect. *)
EXTENDS Connect

CONSTANT c1

OneClient == {c1}
==============================================================================

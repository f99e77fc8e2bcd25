----------------------------- MODULE MCCallProofs -----------------------------
(* The instances of MCCercall for model checking the invariant of CallProofs. *)
EXTENDS MCCercall, CallProofs
==============================================================================

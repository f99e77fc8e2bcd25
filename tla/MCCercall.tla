------------------------------ MODULE MCCercall ------------------------------
(* Values of the constants for model checking Cercall. *)
EXTENDS Cercall, TLC

CONSTANTS c1, c2, add, get, tick, bcast

OneClient == {c1}
TwoClients == {c1, c2}
OneFunction == {add}
TwoFunctions == {add, get}
AddAndTick == {add, tick}
TickOnly == {tick}

Symmetry == Permutations(TwoClients)
==============================================================================

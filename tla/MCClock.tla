-------------------------------- MODULE MCClock --------------------------------
(* Values of the constants for model checking Clock. *)
EXTENDS Clock

CONSTANTS cpp, py, other

OneCpp == {cpp}
OnePy == {py}
OneOther == {other}
==============================================================================

------------------------------ MODULE MCMessenger ------------------------------
(* Values of the constants for model checking Messenger. *)
EXTENDS Messenger, TLC

\* With two digits of base 3 the largest size is 8: lengths 1, 2 and 4 fit (4 is
\* the longest that does), 9 would be 0 in the header.  Payload bytes look like
\* headers.
SomeTexts == {<<0>>, <<1, 0>>, <<2, 0, 1, 0>>, [i \in 1..9 |-> 1]}
==============================================================================

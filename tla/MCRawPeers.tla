------------------------------ MODULE MCRawPeers ------------------------------
(***************************************************************************)
(* Values of the constants for model checking RawPeers and the invariant   *)
(* of RawPeersProofs.                                                      *)
(***************************************************************************)
EXTENDS RawPeersProofs

CONSTANTS c1, add, bcast

OnePeer == {c1}
AddOnly == {add}
==============================================================================

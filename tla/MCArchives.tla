------------------------------- MODULE MCArchives -------------------------------
(***************************************************************************)
(* Values of the constants for model checking Archives.  ReadInv of        *)
(* ArchivesProofs can be added to the invariants of archives.cfg.          *)
(***************************************************************************)
EXTENDS ArchivesProofs

CONSTANTS c1, c2

TwoClients == {c1, c2}
OneClient == {c1}
==============================================================================

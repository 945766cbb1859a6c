---------------------------- MODULE MCPersistence ----------------------------
(* Instance of Persistence for TLC.                                          *)
EXTENDS Persistence, TLC

Symmetry == Permutations(Hashes)
=============================================================================

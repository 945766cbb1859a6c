----------------------------- MODULE MCResumeDb -----------------------------
(* Instance of ResumeDb for TLC.  No definition tells two hashes apart.      *)
EXTENDS ResumeDb, TLC

Symmetry == Permutations(Hashes)
=============================================================================

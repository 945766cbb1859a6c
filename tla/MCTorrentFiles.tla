--------------------------- MODULE MCTorrentFiles ----------------------------
(* Instance of TorrentFiles for TLC.                                         *)
EXTENDS TorrentFiles, TLC

Symmetry == Permutations(Hashes)
=============================================================================

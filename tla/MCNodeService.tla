---------------------------- MODULE MCNodeService ----------------------------
(* NodeService with two configurations and a few concurrent uploads. *)
EXTENDS NodeService, TLC

Symmetry == Permutations(Upload) \cup Permutations(Config)
=============================================================================

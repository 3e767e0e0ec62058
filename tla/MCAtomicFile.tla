---------------------------- MODULE MCAtomicFile ----------------------------
(* AtomicFile with a few calls and readers. *)
EXTENDS AtomicFile, TLC

Symmetry == Permutations(Call)
=============================================================================

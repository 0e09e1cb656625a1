------------------------- MODULE MCManagedConsumer -------------------------
(* Small instances of ManagedConsumer for TLC. *)
EXTENDS ManagedConsumer, TLC

CONSTANTS i1, i2

TwoLoops == {i1, i2}
Symmetry == Permutations(TwoLoops)
=============================================================================

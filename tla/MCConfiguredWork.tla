-------------------------- MODULE MCConfiguredWork --------------------------
(* Instances of ConfiguredWork for TLC.                                      *)
EXTENDS ConfiguredWork, TLC

CONSTANTS o1, s1, s2, a, b, k1, k2, k3

Symmetry == Permutations(Storages) \union Permutations(Keys) \union Permutations(Savers)
=============================================================================

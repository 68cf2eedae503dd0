-------------------------- MODULE MCSettingsStore --------------------------
(* Instances of SettingsStore for TLC.                                       *)
EXTENDS SettingsStore, TLC

CONSTANTS s1, s2, a, b, k1, k2, k3

Symmetry == Permutations(Storages) \union Permutations(Keys) \union Permutations(Savers)
=============================================================================

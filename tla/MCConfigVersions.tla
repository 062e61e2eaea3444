-------------------------- MODULE MCConfigVersions --------------------------
(* Instances of ConfigVersions for TLC.                                    *)
EXTENDS ConfigVersions, TLC

CONSTANTS r1, r2, a, b

Symmetry == Permutations({r1, r2}) \cup Permutations({a, b})
=============================================================================

---------------------- MODULE MCDeploymentIntentGroup ----------------------
(* Instances of DeploymentIntentGroup for TLC.                             *)
EXTENDS DeploymentIntentGroup, TLC

CONSTANTS r1, r2, k1, k2, k3

Symmetry == Permutations({r1, r2}) \cup Permutations({k1, k2, k3})
=============================================================================

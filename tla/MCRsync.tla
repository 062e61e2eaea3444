------------------------------ MODULE MCRsync ------------------------------
(* Instances of Rsync for TLC.                                             *)
EXTENDS Rsync, TLC

CONSTANTS u1, u2, c1, c2

\* Two units on a cluster each, and two units that share a cluster.
OwnClusters == u1 :> c1 @@ u2 :> c2
SharedCluster == u1 :> c1 @@ u2 :> c1
OneUnit == u1 :> c1

\* When UninstallApp comes: at any time, once the run has written its status,
\* or once the install run has returned.
AnyTime == MainPC \ {"idle"}
OnceStarted == MainPC \ {"idle", "initStatus"}
OnceReturned == {"returned", "dead"}
Never == {}

UnitSymmetry == Permutations({u1, u2})

Approvals == {1}
NoResource == {}
LastResource == {NRes}
=============================================================================

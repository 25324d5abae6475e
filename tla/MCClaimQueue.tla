---------------------------- MODULE MCClaimQueue ----------------------------
(* Instances of ClaimQueue: a claim of a cluster, one without, and one of  *)
(* another provider.                                                       *)
EXTENDS ClaimQueue, TLC

CONSTANTS c1, c2, f1

(* c1 and c2 are alike where neither has a cluster.                        *)
Alike == Permutations({c1, c2})

(* The cluster is left out where no claim has one.                         *)
NoCluster == server.cluster = None
=============================================================================

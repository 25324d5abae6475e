------------------------- MODULE MCClaimReconciler -------------------------
(* Instances of ClaimReconciler for TLC: all claims use one pool, whose    *)
(* spec may change between reads.                                          *)
EXTENDS ClaimRefinement, TLC

MCPoolOf == [c \in Claims |-> "pool"]
MCPoolSpecs == [p \in {"pool"} |-> {{1, 2}, {2, 3}}]
MCIPs == 1 .. 3
MCSymmetry == Permutations(Claims)

=============================================================================

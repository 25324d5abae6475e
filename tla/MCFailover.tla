----------------------------- MODULE MCFailover -----------------------------
(* Two managers, claims and managers each alike.                           *)
EXTENDS Failover, TLC

MCSymmetry == Permutations(Claims) \cup Permutations(Managers)
=============================================================================

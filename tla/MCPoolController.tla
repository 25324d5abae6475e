-------------------------- MODULE MCPoolController --------------------------
(* Instances of PoolController for TLC: a pool that can be moved to an     *)
(* overlapping range.                                                      *)
EXTENDS PoolController, TLC

MCIPs == 1 .. 3
MCSpecs == {{1, 2}, {2, 3}}
MCSymmetry == Permutations(Claims)

=============================================================================

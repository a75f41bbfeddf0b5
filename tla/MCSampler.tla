------------------------------ MODULE MCSampler ------------------------------
(***************************************************************************)
(* An instance of Sampler: ka and kb collide in the only counter, kc has a *)
(* level outside of the table and kd a disabled level.                     *)
(***************************************************************************)
EXTENDS Sampler, TLC

CONSTANTS p1, p2, p3, ka, kb, kc, kd, c1

MCBucket == [k \in Keys |-> IF k = kc THEN Unsampled ELSE c1]
BothWays == {1, -1}
Symmetry == Permutations(Procs) \cup Permutations({ka, kb})
=============================================================================

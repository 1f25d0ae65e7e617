---------------------------- MODULE MCVirtioDisk ----------------------------
(* Instances of VirtioDisk for TLC. *)
EXTENDS VirtioDisk, TLC

CONSTANTS p1, p2, p3, b1, b2, b3, v1, v2

Symmetry == Permutations({p1, p2, p3}) \cup Permutations({b1, b2, b3})

=============================================================================

---------------------------- MODULE MCLongPolls -----------------------------
(* Instances of LongPolls for TLC. *)
EXTENDS LongPolls, TLC

CONSTANTS t1, t2, a1, a2
Symmetry == Permutations({t1, t2}) \union Permutations({a1, a2})
=============================================================================

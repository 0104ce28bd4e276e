---------------------------- MODULE MCSignInLinks ----------------------------
(* SignInLinks on small sets. *)
EXTENDS SignInLinks, TLC

CONSTANTS u1, u2, p1, p2, o1, o2, x1, x2

Symmetry == Permutations({p1, p2}) \cup Permutations({x1, x2})
=============================================================================

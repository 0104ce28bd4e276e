----------------------------- MODULE MCProofStreak -----------------------------
(* ProofStreak with three misses over two ticks instead of six over ten     *)
(* hours.                                                                   *)
EXTENDS ProofStreak

CONSTANTS k1, k2
===============================================================================

---------------------------- MODULE MCReimbursement ----------------------------
(* One request of c that pays p.  d is a second login of c and may chair    *)
(* the group, as s may; p, s and t may get the key to pay.                  *)
EXTENDS Reimbursement

MCParty == [u \in {"c", "d", "p", "s", "t"} |-> IF u = "d" THEN "c" ELSE u]
===============================================================================

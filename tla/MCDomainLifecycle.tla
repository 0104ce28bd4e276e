--------------------------- MODULE MCDomainLifecycle ---------------------------
(* DomainLifecycle on small sets.                                           *)
EXTENDS DomainLifecycle, TLC

CONSTANTS o1, o2, apex, other, c1, c2, k1, k2

(* One claim of every host, and a claim of its own for the host other.      *)
OneClaim == [h \in Host |-> c1]
OtherClaim == [h \in Host |-> IF h = other THEN c2 ELSE c1]

Symmetry == Permutations(Org) \cup Permutations(Checker)

(* Checks that overlap are of one claim.                                    *)
OneClaimChecked ==
  \A k, l \in Checker : checker[k].pc # "idle" /\ checker[l].pc # "idle" => checker[k].org = checker[l].org

(* An eviction is a force-release under another name; one of the two will   *)
(* do where neither is the question.                                        *)
NoEviction == \A s \in G!Key : dom[s].cause # "evicted"

(* No row is taken out of service by the platform.                          *)
NoForced == \A s \in G!Key : ~dom[s].reason

(* No grace runs out and no claim expires.  Like NoEviction it only leaves  *)
(* out steps no fairness forces, so a liveness property may be checked.     *)
NoDeadline == \A s \in G!Key : dom[s].grace # "over" /\ ~dom[s].expired
===============================================================================

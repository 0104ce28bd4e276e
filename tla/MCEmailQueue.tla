------------------------------ MODULE MCEmailQueue ------------------------------
(* EmailQueue on small sets: e1 is an ordinary message, e2 an invitation.   *)
EXTENDS EmailQueue

CONSTANTS e1, e2, w1, w2, a1, a2

Inserted == {e \in Email : row[e].status # "none"}

(* A second row is in the table only beside a single worker, one inline    *)
(* send at a time, no retry and no late write.  Nothing forces an insert,  *)
(* so what one row does is explored whole, liveness included.              *)
TwoRowsAlone ==
  Cardinality(Inserted) = 2 =>
    /\ worker[w2].pc = "idle"
    /\ retried = {} /\ late = {} /\ \A a \in Request : retry[a] = {}
    /\ \E e \in Email : inline[e].pc = "idle"
===============================================================================

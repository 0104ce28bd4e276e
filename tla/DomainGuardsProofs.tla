-------------------------- MODULE DomainGuardsProofs --------------------------
(***************************************************************************)
(* Proofs about the guards of organization_domains, for every set of       *)
(* organizations, hostnames and purposes and every cap.                    *)
(*                                                                         *)
(* The evidence properties are proved row by row: RowOK is their           *)
(* conjunction on one row, an accepted insert establishes it and an        *)
(* accepted update preserves it, so no sequence of transactions, by        *)
(* whatever writer, leaves it.  RowOK needs no strengthening, but none of  *)
(* its conjuncts is inductive alone: that a lapse starts a grace only      *)
(* because nothing with a grace can lapse is GraceOnSuspended, and that a  *)
(* parked row's cause may be carried to its release is CauseOnExit with    *)
(* ForcedByReasonOnly.                                                     *)
(***************************************************************************)
EXTENDS DomainGuards, FiniteSetTheorems, TLAPS

RowOK(r) ==
  /\ r.reason <=> r.cause \in ForcedCause
  /\ r.reason => r.state \in {"release_pending", "released"}
  /\ r.state = "release_pending" /\ ~r.reason => r.grace = "over"
  /\ r.state \in {"lapsed", "parked"} => r.grace # "none"
  /\ r.grace # "none" => r.state \in {"lapsed", "parked", "release_pending", "released"}
  /\ r.cause # "none" <=> r.state \in Exit

RowsOK == \A k \in Key : RowOK(dom[k])

(* The edges the evidence argument needs: no edge returns to pending, and  *)
(* a suspended row is proved again or leaves, a releasing one is released. *)
LEMMA EdgeShape ==
  ASSUME NEW p, NEW from, NEW to, LegalEdge(p, from, to)
  PROVE  /\ to \in Holding \cup Terminal
         /\ from = "lapsed" => to \in {"verified", "parked", "release_pending", "released"}
         /\ from = "parked" => to \in {"verified", "release_pending"}
         /\ from = "release_pending" => to = "released"
         /\ from \notin Terminal
<1>1. CASE <<from, to>> \in BothEdges
  BY <1>1 DEF BothEdges, Holding, Terminal
<1>2. CASE <<from, to>> \in WebEdges
  BY <1>2 DEF WebEdges, Holding, Terminal
<1>3. CASE <<from, to>> \in MailEdges
  BY <1>3 DEF MailEdges, Holding, Terminal
<1>. QED BY <1>1, <1>2, <1>3 DEF LegalEdge

LEMMA InsertKeeps ==
  ASSUME NEW p, NEW old, NEW new, InsertAccepted(p, old, new)
  PROVE  RowOK(new) /\ new.state = "pending" /\ new.grace = "none"
BY DEF InsertAccepted, Inserted, NoRow, RowOK, ForcedCause, Exit

(* An update that leaves the state alone leaves every column of the        *)
(* evidence alone.                                                         *)
LEMMA SameStateKeeps ==
  ASSUME NEW p, NEW old \in Row, NEW new \in Row, NEW a \in BOOLEAN,
         UpdateAccepted(p, old, new, a), new.state = old.state
  PROVE  new.cause = old.cause /\ new.reason = old.reason /\ new.grace = old.grace
<1>1. new.cause = old.cause
  BY DEF UpdateAccepted, CauseAccepted
<1>2. new.reason = old.reason
  BY DEF UpdateAccepted, ReasonAccepted
<1>3. new.grace = old.grace
  BY DEF UpdateAccepted, Stamped, Row
<1>. QED BY <1>1, <1>2, <1>3

(* What the trigger leaves in grace_ends_at on an edge.                    *)
LEMMA EdgeGrace ==
  ASSUME NEW p, NEW old \in Row, NEW new \in Row, NEW a \in BOOLEAN,
         UpdateAccepted(p, old, new, a), new.state # old.state
  PROVE  /\ new.state = "verified" => new.grace = "none"
         /\ new.state \in {"lapsed", "parked"} /\ old.state # "lapsed" => new.grace = "running"
         /\ new.state # "verified" /\ ~(new.state \in {"lapsed", "parked"} /\ old.state # "lapsed")
              => new.grace = old.grace
BY DEF UpdateAccepted, Stamped, Row

LEMMA UpdateKeeps ==
  ASSUME NEW p, NEW old \in Row, NEW new \in Row, NEW a \in BOOLEAN,
         UpdateAccepted(p, old, new, a), RowOK(old)
  PROVE  RowOK(new)
<1>1. CASE new.state = old.state
  BY <1>1, SameStateKeeps DEF RowOK
<1>2. CASE new.state # old.state
  <2>1. /\ new.state \in Holding \cup Terminal
        /\ old.state = "lapsed" => new.state \in {"verified", "parked", "release_pending", "released"}
        /\ old.state = "parked" => new.state \in {"verified", "release_pending"}
        /\ old.state = "release_pending" => new.state = "released"
        /\ old.state \notin Terminal
    BY <1>2, EdgeShape DEF UpdateAccepted
  <2>2. /\ new.state = "verified" => new.grace = "none"
        /\ new.state \in {"lapsed", "parked"} /\ old.state # "lapsed" => new.grace = "running"
        /\ new.state # "verified" /\ ~(new.state \in {"lapsed", "parked"} /\ old.state # "lapsed")
             => new.grace = old.grace
    BY <1>2, EdgeGrace
  <2>3. new.reason # old.reason =>
          new.state \in {"release_pending", "released"} /\ old.state # "release_pending"
    BY DEF UpdateAccepted, ReasonAccepted
  <2>4. CASE new.state \in Exit
    <3>1. ExitEvidence(old, new, a)
      BY <1>2, <2>4 DEF UpdateAccepted, CauseAccepted, Exit
    <3>2. CASE old.state = "release_pending"
      BY <2>1, <2>2, <2>3, <3>1, <3>2 DEF ExitEvidence, RowOK, Exit
    <3>3. CASE old.state # "release_pending" /\ new.reason
      BY <2>1, <2>2, <2>3, <2>4, <3>1, <3>3 DEF ExitEvidence, RowOK, Exit, ForcedCause, Terminal
    <3>4. CASE old.state # "release_pending" /\ ~new.reason
      BY <2>1, <2>2, <2>3, <2>4, <3>1, <3>4 DEF ExitEvidence, RowOK, Exit, ForcedCause, Terminal
    <3>. QED BY <3>2, <3>3, <3>4 DEF Row
  <2>5. CASE new.state \notin Exit
    <3>1. new.cause = "none"
      <4>1. CASE new.state = "verified"
        BY <1>2, <4>1 DEF UpdateAccepted, CauseAccepted, Exit
      <4>2. CASE new.state # "verified"
        <5>1. new.cause = old.cause
          BY <1>2, <2>5, <4>2 DEF UpdateAccepted, CauseAccepted
        <5>2. old.state \notin Exit
          BY <2>1, <2>5, <4>2 DEF Exit, Terminal
        <5>. QED BY <5>1, <5>2 DEF RowOK
      <4>. QED BY <4>1, <4>2
    <3>2. ~new.reason
      BY <2>1, <2>3, <2>5 DEF RowOK, Exit, Row, Terminal
    <3>3. new.grace # "none" => new.state \in {"lapsed", "parked"}
      BY <2>1, <2>2, <2>5 DEF RowOK, Exit, Terminal
    <3>4. new.state \in {"lapsed", "parked"} => new.grace # "none"
      BY <2>1, <2>2, <2>5 DEF RowOK, Exit
    <3>. QED BY <2>5, <3>1, <3>2, <3>3, <3>4 DEF RowOK, Exit, ForcedCause
  <2>. QED BY <2>4, <2>5
<1>. QED BY <1>1, <1>2

-------------------------------------------------------------------------------
(* Typing *)

LEMMA StepKeepsType ==
  ASSUME TypeOK, [Next]_vars
  PROVE  TypeOK'
<1>1. ASSUME NEW o \in Org, Transaction(o) PROVE TypeOK'
  BY <1>1 DEF Transaction, TypeOK
<1>2. ASSUME NEW o \in Org, LifecycleEvent(o) PROVE TypeOK'
  BY <1>2 DEF LifecycleEvent, TypeOK
<1>3. ASSUME NEW k \in Key, GraceRunsOut(k) PROVE TypeOK'
  <2>1. [dom[k] EXCEPT !.grace = "over"] \in Row
    BY DEF TypeOK, Row, Grace
  <2>. QED BY <1>3, <2>1 DEF GraceRunsOut, TypeOK
<1>4. ASSUME NEW k \in Key, ExpiryPasses(k) PROVE TypeOK'
  <2>1. [dom[k] EXCEPT !.expired = TRUE] \in Row
    BY DEF TypeOK, Row
  <2>. QED BY <1>4, <2>1 DEF ExpiryPasses, TypeOK
<1>5. CASE UNCHANGED vars
  BY <1>5 DEF vars, TypeOK
<1>. QED BY <1>1, <1>2, <1>3, <1>4, <1>5 DEF Next

(* Every row keeps its type: the state, role, cause and grace of a row are *)
(* ones the CHECK constraints of organization_domains list.                *)
THEOREM Typing == Spec => []TypeOK
<1>1. Init => TypeOK
  BY DEF Init, TypeOK, NoRow, Row, State, Cause, Grace
<1>. QED BY <1>1, StepKeepsType, PTL DEF Spec

-------------------------------------------------------------------------------
(* Evidence *)

(* One row's step under any action of Next: untouched, inserted, updated,  *)
(* or passed by the clock.                                                 *)
LEMMA RowStep ==
  ASSUME TypeOK, [Next]_vars, NEW k \in Key
  PROVE  \/ dom'[k] = dom[k]
         \/ InsertAccepted(PurposeOf(k), dom[k], dom'[k])
         \/ \E a \in BOOLEAN : UpdateAccepted(PurposeOf(k), dom[k], dom'[k], a)
         \/ dom[k].grace = "running" /\ dom'[k] = [dom[k] EXCEPT !.grace = "over"]
         \/ dom'[k] = [dom[k] EXCEPT !.expired = TRUE]
<1>1. ASSUME NEW o \in Org, Transaction(o)
      PROVE  \/ dom'[k] = dom[k]
             \/ InsertAccepted(PurposeOf(k), dom[k], dom'[k])
             \/ \E a \in BOOLEAN : UpdateAccepted(PurposeOf(k), dom[k], dom'[k], a)
  BY <1>1 DEF Transaction, TypeOK
<1>2. ASSUME NEW o \in Org, LifecycleEvent(o) PROVE dom'[k] = dom[k]
  BY <1>2 DEF LifecycleEvent
<1>3. ASSUME NEW l \in Key, GraceRunsOut(l)
      PROVE  \/ dom'[k] = dom[k]
             \/ dom[k].grace = "running" /\ dom'[k] = [dom[k] EXCEPT !.grace = "over"]
  BY <1>3 DEF GraceRunsOut, TypeOK
<1>4. ASSUME NEW l \in Key, ExpiryPasses(l)
      PROVE  dom'[k] = dom[k] \/ dom'[k] = [dom[k] EXCEPT !.expired = TRUE]
  BY <1>4 DEF ExpiryPasses, TypeOK
<1>5. CASE UNCHANGED vars
  BY <1>5 DEF vars
<1>. QED BY <1>1, <1>2, <1>3, <1>4, <1>5 DEF Next

LEMMA StepKeepsRows ==
  ASSUME TypeOK, RowsOK, [Next]_vars
  PROVE  RowsOK'
<1>. SUFFICES ASSUME NEW k \in Key PROVE RowOK(dom'[k])
  BY DEF RowsOK, Key
<1>0. dom[k] \in Row /\ dom'[k] \in Row /\ RowOK(dom[k])
  BY StepKeepsType DEF TypeOK, RowsOK
<1>1. CASE dom'[k] = dom[k]
  BY <1>0, <1>1
<1>2. CASE InsertAccepted(PurposeOf(k), dom[k], dom'[k])
  BY <1>2, InsertKeeps
<1>3. CASE \E a \in BOOLEAN : UpdateAccepted(PurposeOf(k), dom[k], dom'[k], a)
  BY <1>0, <1>3, UpdateKeeps
<1>4. CASE dom[k].grace = "running" /\ dom'[k] = [dom[k] EXCEPT !.grace = "over"]
  <2>1. /\ dom'[k].state = dom[k].state /\ dom'[k].cause = dom[k].cause
        /\ dom'[k].reason = dom[k].reason /\ dom'[k].grace = "over"
    BY <1>0, <1>4 DEF Row
  <2>. QED BY <1>0, <1>4, <2>1 DEF RowOK
<1>5. CASE dom'[k] = [dom[k] EXCEPT !.expired = TRUE]
  <2>1. /\ dom'[k].state = dom[k].state /\ dom'[k].cause = dom[k].cause
        /\ dom'[k].reason = dom[k].reason /\ dom'[k].grace = dom[k].grace
    BY <1>0, <1>5 DEF Row
  <2>. QED BY <1>0, <2>1 DEF RowOK
<1>. QED BY <1>1, <1>2, <1>3, <1>4, <1>5, RowStep

(* No sequence of inserts, updates, closings and passing deadlines, by any *)
(* writer, leaves a row whose cause, reason, grace and state disagree.     *)
THEOREM EvidenceHolds == Spec => []Evidence
<1>1. Init => RowsOK
  BY DEF Init, RowsOK, RowOK, NoRow, ForcedCause, Exit
<1>2. Spec => []RowsOK
  BY <1>1, Typing, StepKeepsRows, PTL DEF Spec
<1>3. RowsOK => Evidence
  BY DEF RowsOK, RowOK, Evidence, ForcedByReasonOnly, NoEarlyRelease, GraceOnSuspended, CauseOnExit
<1>. QED BY <1>2, <1>3, PTL

(* A row is being released early only with the platform's reason on it.    *)
THEOREM NoEarlyReleaseHolds == Spec => []NoEarlyRelease
BY EvidenceHolds, PTL DEF Evidence

(* The platform's causes and the platform's reason stand and fall together.*)
THEOREM ForcedByReasonOnlyHolds == Spec => []ForcedByReasonOnly
BY EvidenceHolds, PTL DEF Evidence

(* Every suspended row has a deadline, and only leaving rows keep one.     *)
THEOREM GraceOnSuspendedHolds == Spec => []GraceOnSuspended
BY EvidenceHolds, PTL DEF Evidence

(* The cause a release is filed under is there from the exit on, and gone  *)
(* when the domain is proved again.                                        *)
THEOREM CauseOnExitHolds == Spec => []CauseOnExit
BY EvidenceHolds, PTL DEF Evidence

(* Nothing restarts a grace that has run out: the only edges that stamp a  *)
(* deadline leave states without one (GraceOnSuspended), and lapsed to     *)
(* parked keeps the lapse's.                                               *)
THEOREM GraceNeverRestartsHolds == Spec => GraceNeverRestarts
<1>. DEFINE Kept(k) == dom[k].grace = "over" /\ dom'[k].grace # "over"
              => dom'[k].grace = "none" /\ dom'[k].state \in {"verified", "pending"}
<1>1. ASSUME TypeOK, RowsOK, [Next]_vars, NEW k \in Key PROVE Kept(k)
  <2>0. dom[k] \in Row /\ dom'[k] \in Row /\ RowOK(dom[k])
    BY <1>1, StepKeepsType DEF TypeOK, RowsOK
  <2>1. CASE dom'[k] = dom[k]
    BY <2>1
  <2>2. CASE InsertAccepted(PurposeOf(k), dom[k], dom'[k])
    BY <2>2, InsertKeeps
  <2>3. ASSUME NEW a \in BOOLEAN, UpdateAccepted(PurposeOf(k), dom[k], dom'[k], a)
        PROVE  Kept(k)
    <3>1. CASE dom'[k].state = dom[k].state
      BY <2>0, <2>3, <3>1, SameStateKeeps
    <3>2. CASE dom'[k].state # dom[k].state
      <4>1. /\ dom[k].state = "parked" => dom'[k].state \in {"verified", "release_pending"}
            /\ dom[k].state = "release_pending" => dom'[k].state = "released"
            /\ dom[k].state \notin Terminal
        BY <2>3, <3>2, EdgeShape DEF UpdateAccepted
      <4>2. /\ dom'[k].state = "verified" => dom'[k].grace = "none"
            /\ /\ dom'[k].state # "verified"
               /\ ~(dom'[k].state \in {"lapsed", "parked"} /\ dom[k].state # "lapsed")
               => dom'[k].grace = dom[k].grace
        BY <2>0, <2>3, <3>2, EdgeGrace
      <4>. QED BY <2>0, <4>1, <4>2 DEF RowOK, Terminal
    <3>. QED BY <3>1, <3>2
  <2>4. CASE dom[k].grace = "running" /\ dom'[k] = [dom[k] EXCEPT !.grace = "over"]
    BY <2>0, <2>4 DEF Row
  <2>5. CASE dom'[k] = [dom[k] EXCEPT !.expired = TRUE]
    BY <2>0, <2>5 DEF Row
  <2>. QED BY <1>1, <2>1, <2>2, <2>3, <2>4, <2>5, RowStep
<1>2. TypeOK /\ RowsOK /\ [Next]_vars => [\A k \in Key : Kept(k)]_vars
  BY <1>1
<1>3. Init => RowsOK
  BY DEF Init, RowsOK, RowOK, NoRow, ForcedCause, Exit
<1>4. Spec => []RowsOK
  BY <1>3, Typing, StepKeepsRows, PTL DEF Spec
<1>. QED BY <1>2, <1>4, Typing, PTL DEF Spec, GraceNeverRestarts

-------------------------------------------------------------------------------
(* The unique indexes and the caps *)

(* Indexes reads only the states and the roles of the rows.                *)
LEMMA IndexesByStateAndRole ==
  ASSUME Indexes,
         \A k \in Key : dom'[k].state = dom[k].state /\ dom'[k].role = dom[k].role
  PROVE  Indexes'
<1>1. OneHolder'
  BY DEF Indexes, OneHolder, Key
<1>2. OneCanonical'
  BY DEF Indexes, OneCanonical, Key
<1>3. \A o \in Org, p \in Purpose : Claimed(o, p)' = Claimed(o, p)
  BY DEF Claimed, Key
<1>4. WithinCaps'
  BY <1>3 DEF Indexes, WithinCaps
<1>. QED BY <1>1, <1>2, <1>4 DEF Indexes

LEMMA StepKeepsIndexes ==
  ASSUME TypeOK, Indexes, [Next]_vars
  PROVE  Indexes'
<1>1. ASSUME NEW o \in Org, Transaction(o) PROVE Indexes'
  BY <1>1 DEF Transaction
<1>2. ASSUME NEW o \in Org, LifecycleEvent(o) PROVE Indexes'
  BY <1>2, IndexesByStateAndRole DEF LifecycleEvent
<1>3. ASSUME NEW k \in Key, GraceRunsOut(k) PROVE Indexes'
  <2>1. \A l \in Key : dom'[l].state = dom[l].state /\ dom'[l].role = dom[l].role
    BY <1>3 DEF GraceRunsOut, TypeOK, Row
  <2>. QED BY <2>1, IndexesByStateAndRole
<1>4. ASSUME NEW k \in Key, ExpiryPasses(k) PROVE Indexes'
  <2>1. \A l \in Key : dom'[l].state = dom[l].state /\ dom'[l].role = dom[l].role
    BY <1>4 DEF ExpiryPasses, TypeOK, Row
  <2>. QED BY <2>1, IndexesByStateAndRole
<1>5. CASE UNCHANGED vars
  BY <1>5, IndexesByStateAndRole DEF vars
<1>. QED BY <1>1, <1>2, <1>3, <1>4, <1>5 DEF Next

(* At every moment one organization at most holds a name for a purpose,    *)
(* one of its names at most is canonical, and no cap is exceeded: time and *)
(* lifecycle events never break what the commits respect.                  *)
THEOREM IndexesHold == Spec => []Indexes
<1>1. Init => Indexes
  <2>. SUFFICES ASSUME Init PROVE Indexes
    OBVIOUS
  <2>1. \A k \in Key : dom[k].state = "none"
    BY DEF Init, NoRow
  <2>2. OneHolder
    BY <2>1 DEF OneHolder, Holding
  <2>3. OneCanonical
    BY <2>1 DEF OneCanonical, NonTerminal, Holding
  <2>4. ASSUME NEW o \in Org, NEW p \in Purpose PROVE Cardinality(Claimed(o, p)) = 0
    <3>1. Claimed(o, p) = {}
      BY <2>1 DEF Claimed, NonTerminal, Holding
    <3>. QED BY <3>1, FS_EmptySet
  <2>5. WithinCaps
    BY <2>4, CapAssumption DEF WithinCaps
  <2>. QED BY <2>2, <2>3, <2>5 DEF Indexes
<1>. QED BY <1>1, Typing, StepKeepsIndexes, PTL DEF Spec

-------------------------------------------------------------------------------
(* One statement at a time *)

LEMMA InsertIsTyped ==
  ASSUME NEW role \in {"canonical", "alias", "none"}
  PROVE  Inserted(role) \in Row
BY DEF Inserted, NoRow, Row, State, NonTerminal, Cause, Grace

LEMMA UpdateIsTyped ==
  ASSUME NEW old \in Row, NEW new \in Row
  PROVE  Stamped(old, new) \in Row
BY DEF Stamped, Row, Cause, Grace

LEMMA StatementIsTransaction ==
  ASSUME TypeOK, NEW k \in Key, Statement(k)
  PROVE  Transaction(OrgOf(k))
<1>0. dom[k] \in Row
  BY DEF TypeOK
<1>1. OrgOf(k) \in Org
  BY DEF Key, OrgOf
<1>2. ASSUME NEW row \in Row, dom' = [dom EXCEPT ![k] = row],
             \/ InsertAccepted(PurposeOf(k), dom[k], row)
             \/ UpdateAccepted(PurposeOf(k), dom[k], row, active[OrgOf(k)])
      PROVE  Transaction(OrgOf(k))
  <2>1. dom' \in [Key -> Row]
    BY <1>2 DEF TypeOK
  <2>2. ASSUME NEW l \in Key
        PROVE \/ dom'[l] = dom[l]
              \/ /\ OrgOf(l) = OrgOf(k)
                 /\ \/ InsertAccepted(PurposeOf(l), dom[l], dom'[l])
                    \/ UpdateAccepted(PurposeOf(l), dom[l], dom'[l], active[OrgOf(k)])
    BY <1>2 DEF TypeOK
  <2>. QED BY <2>1, <2>2 DEF Statement, Transaction
<1>3. CASE Insert(k)
  BY <1>2, <1>3, InsertIsTyped DEF Insert
<1>4. CASE Update(k)
  <2>1. PICK s \in {t \in State : t = dom[k].state \/ LegalEdge(PurposeOf(k), dom[k].state, t)},
             role \in {"canonical", "alias", "none"}, c \in Cause, reason \in BOOLEAN :
          LET new == Stamped(dom[k], [dom[k] EXCEPT !.state = s, !.role = role,
                                                    !.cause = c, !.reason = reason])
          IN /\ UpdateAccepted(PurposeOf(k), dom[k], new, active[OrgOf(k)])
             /\ dom' = [dom EXCEPT ![k] = new]
    BY <1>4 DEF Update
  <2>2. [dom[k] EXCEPT !.state = s, !.role = role, !.cause = c, !.reason = reason] \in Row
    BY <1>0 DEF Row
  <2>. QED BY <1>0, <1>2, <2>1, <2>2, UpdateIsTyped
<1>. QED BY <1>3, <1>4 DEF Statement

(* The statement-by-statement behaviours that TLC enumerates are behaviours*)
(* of the transactional specification, so what is proved of Spec holds of  *)
(* them too.                                                               *)
THEOREM StatementsImplementSpec == StatementSpec => Spec
<1>1. ASSUME TypeOK, [StatementNext]_vars PROVE [Next]_vars
  <2>1. ASSUME NEW k \in Key, Statement(k) PROVE \E o \in Org : Transaction(o)
    BY <1>1, <2>1, StatementIsTransaction DEF Key, OrgOf
  <2>. QED BY <1>1, <2>1 DEF StatementNext, Next
<1>2. TypeOK /\ [StatementNext]_vars => TypeOK'
  BY <1>1, StepKeepsType
<1>3. Init => TypeOK
  BY DEF Init, TypeOK, NoRow, Row, State, Cause, Grace
<1>. QED BY <1>1, <1>2, <1>3, PTL DEF StatementSpec, Spec

===============================================================================

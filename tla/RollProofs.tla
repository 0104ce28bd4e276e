------------------------------- MODULE RollProofs -------------------------------
(***************************************************************************)
(* Proofs about the roll, for every set of organizations, people and       *)
(* gains, and any number of actions and days.                              *)
(*                                                                         *)
(* The invariants of the cache and of the ends rest on one fact about the  *)
(* table of actions: what a transaction writes for one membership changes  *)
(* the effective actions of no other (Elsewhere), because an action that   *)
(* voids another voids one of its own membership (VoidsOK).  Nothing rests *)
(* on where a proposal stands in the table.                                *)
(***************************************************************************)
EXTENDS Roll, TLAPS

USE RollAssumption

(* An action voids one of its own membership; what is not decided yet      *)
(* voids nothing and removes nobody.                                       *)
Undecided(row) == row.status \in {"begun", "pending"}

VoidsOK ==
  \A i \in DOMAIN acts :
    /\ acts[i].voids # 0 => /\ acts[i].voids \in DOMAIN acts
                            /\ acts[acts[i].voids].of = acts[i].of
    /\ Undecided(acts[i]) => acts[i].voids = 0 /\ acts[i].kind \in MemberGains

TypeInv == TypeOK /\ VoidsOK

LEMMA Statuses == "begun" \in Status /\ "pending" \in Status /\ "approved" \in Status
BY DEF Status

LEMMA Kinds ==
  /\ Gains \subseteq MemberGains
  /\ "other_participant_removed" \notin MemberGains /\ "void" \notin MemberGains
BY DEF MemberGains, Active

LEMMA RowTyped ==
  ASSUME NEW m \in Membership, NEW kind \in MemberGains \cup OnRecord \cup {"void"}, NEW day \in Day,
         NEW status \in Status, NEW voids \in Nat
  PROVE  Row(m, kind, day, status, voids) \in Action
BY DEF Row, Action

LEMMA StatusTyped ==
  ASSUME NEW a \in Action, NEW status \in Status
  PROVE  /\ [a EXCEPT !.status = status] \in Action
         /\ [a EXCEPT !.status = status].status = status
         /\ [a EXCEPT !.status = status].of = a.of /\ [a EXCEPT !.status = status].on = a.on
         /\ [a EXCEPT !.status = status].kind = a.kind /\ [a EXCEPT !.status = status].voids = a.voids
BY DEF Action

LEMMA ActTyped ==
  ASSUME acts \in Seq(Action), NEW i \in DOMAIN acts
  PROVE  /\ acts[i] \in Action /\ acts[i].of \in Membership /\ acts[i].on \in Day
         /\ i \in Nat \ {0} /\ i <= Len(acts)
<1>1. acts[i] \in Action
  OBVIOUS
<1>. QED BY <1>1 DEF Action

(* The two ways the table grows old: a row more, or a row decided.         *)
Appended(row) == Append(acts, row)
DecidedAs(i, status) == [acts EXCEPT ![i].status = status]

LEMMA AppendedShape ==
  ASSUME acts \in Seq(Action), NEW row \in Action
  PROVE  /\ Appended(row) \in Seq(Action) /\ Len(Appended(row)) = Len(acts) + 1
         /\ DOMAIN Appended(row) = DOMAIN acts \cup {Len(acts) + 1}
         /\ \A i \in DOMAIN acts : Appended(row)[i] = acts[i]
         /\ Appended(row)[Len(acts) + 1] = row
         /\ Len(acts) + 1 \notin DOMAIN acts
BY DEF Appended

LEMMA DecidedShape ==
  ASSUME acts \in Seq(Action), NEW i \in DOMAIN acts,
         NEW status \in Status
  PROVE  /\ DecidedAs(i, status) \in Seq(Action) /\ Len(DecidedAs(i, status)) = Len(acts)
         /\ DOMAIN DecidedAs(i, status) = DOMAIN acts
         /\ \A j \in DOMAIN acts \ {i} : DecidedAs(i, status)[j] = acts[j]
         /\ DecidedAs(i, status)[i] = [acts[i] EXCEPT !.status = status]
<1>1. [acts[i] EXCEPT !.status = status] \in Action
  BY ActTyped, StatusTyped
<1>. QED BY <1>1 DEF DecidedAs

LEMMA DecidedElsewhere ==
  ASSUME acts \in Seq(Action), NEW i \in DOMAIN acts, NEW j \in DOMAIN acts, j # i,
         NEW status \in Status
  PROVE  DecidedAs(i, status)[j] = acts[j]
BY DEF DecidedAs

-------------------------------------------------------------------------------
(* Types *)

LEMMA AppendKeeps ==
  ASSUME TypeInv, NEW row \in Action, Len(acts) < MaxActs, acts' = Appended(row),
         row.voids # 0 => row.voids \in DOMAIN acts /\ acts[row.voids].of = row.of,
         Undecided(row) => row.voids = 0 /\ row.kind \in MemberGains
  PROVE  acts' \in Seq(Action) /\ Len(acts') <= MaxActs /\ VoidsOK'
<1>1. acts \in Seq(Action)
  BY DEF TypeInv, TypeOK
<1>2. acts' \in Seq(Action) /\ Len(acts') <= MaxActs
  BY <1>1, AppendedShape
<1>3. ASSUME NEW i \in DOMAIN acts'
      PROVE  /\ acts'[i].voids # 0 => /\ acts'[i].voids \in DOMAIN acts'
                                      /\ acts'[acts'[i].voids].of = acts'[i].of
             /\ Undecided(acts'[i]) => acts'[i].voids = 0 /\ acts'[i].kind \in MemberGains
  <2>1. CASE i \in DOMAIN acts
    <3>1. acts'[i] = acts[i] /\ i \in DOMAIN acts /\ VoidsOK
      BY <1>1, <2>1, AppendedShape DEF TypeInv
    <3>2. acts[i].voids # 0 => /\ acts[i].voids \in DOMAIN acts' /\ acts[i].voids \in DOMAIN acts
                               /\ acts'[acts[i].voids] = acts[acts[i].voids]
      BY <1>1, <3>1, AppendedShape DEF VoidsOK
    <3>. QED BY <3>1, <3>2 DEF VoidsOK
  <2>2. CASE i = Len(acts) + 1
    BY <1>1, <2>2, AppendedShape
  <2>. QED BY <1>1, <1>3, <2>1, <2>2, AppendedShape
<1>. QED BY <1>2, <1>3 DEF VoidsOK

LEMMA DecideKeeps ==
  ASSUME TypeInv, NEW i \in DOMAIN acts, NEW status \in Status, Undecided(acts[i]),
         acts' = DecidedAs(i, status)
  PROVE  acts' \in Seq(Action) /\ Len(acts') <= MaxActs /\ VoidsOK'
<1>1. acts \in Seq(Action) /\ Len(acts) <= MaxActs
  BY DEF TypeInv, TypeOK
<1>2. acts' \in Seq(Action) /\ Len(acts') <= MaxActs /\ DOMAIN acts' = DOMAIN acts
  BY <1>1, DecidedShape
<1>3. ASSUME NEW j \in DOMAIN acts
      PROVE  /\ acts'[j].of = acts[j].of /\ acts'[j].voids = acts[j].voids
             /\ acts'[j].kind = acts[j].kind
             /\ Undecided(acts'[j]) => Undecided(acts[j])
  <2>1. acts[i] \in Action
    BY <1>1, ActTyped
  <2>2. CASE j = i
    <3>1. acts'[i] = [acts[i] EXCEPT !.status = status]
      BY <1>1, DecidedShape
    <3>. QED BY <2>1, <2>2, <3>1, StatusTyped
  <2>3. CASE j # i
    <3>1. acts'[j] = acts[j]
      BY <1>1, <2>3, DecidedElsewhere
    <3>. QED BY <3>1
  <2>. QED BY <2>2, <2>3
<1>4. VoidsOK'
  BY <1>2, <1>3 DEF TypeInv, VoidsOK
<1>. QED BY <1>2, <1>4

LEMMA RollTyped ==
  ASSUME NEW log, NEW rows
  PROVE  RollOfRows(log, rows) \in Rolls
BY DEF RollOfRows, RollOf, Rolls, NoRoll

LEMMA ProjectedTyped ==
  ASSUME TypeInv, NEW log, NEW m \in Membership
  PROVE  Projected(log, m) \in [Membership -> Rolls]
BY RollTyped DEF Projected, RollAsOf, TypeInv, TypeOK

Endings == [why: {"live", "removed", "archived"}, on: 0 .. LastDay]

LEMMA EndingTyped ==
  ASSUME TypeInv, NEW m \in Membership, NEW why \in {"removed", "archived"}, NEW day \in Day
  PROVE  /\ Ended(m, why, day) \in [Membership -> Endings]
         /\ [ended EXCEPT ![m] = Live] \in [Membership -> Endings]
<1>1. [why |-> why, on |-> day] \in Endings /\ Live \in Endings
  BY DEF Endings, Day, Live
<1>. QED BY <1>1 DEF Ended, TypeInv, TypeOK, Endings

LEMMA CommitTyped ==
  ASSUME TypeInv, NEW log \in Seq(Action), NEW m \in Membership, NEW ends \in [Membership -> Endings],
         Commit(log, m, ends), Len(log) <= MaxActs, VoidsOK'
  PROVE  TypeInv'
<1>1. acts' = log /\ cache' = Projected(log, m) /\ ended' = ends /\ UNCHANGED <<today, term>>
  BY DEF Commit
<1>. QED BY <1>1, ProjectedTyped DEF TypeInv, TypeOK, Endings

LEMMA StepTyped == TypeInv /\ [Next]_vars => TypeInv'
<1>. SUFFICES ASSUME TypeInv, [Next]_vars PROVE TypeInv'
  OBVIOUS
<1>1. /\ acts \in Seq(Action) /\ today \in Day /\ ended \in [Membership -> Endings]
      /\ 0 \in Nat
  BY DEF TypeInv, TypeOK, Endings
<1>2. ASSUME NEW m \in Membership, NEW kind \in Gains, NEW day \in Day, Propose(m, kind, day)
      PROVE  TypeInv'
  <2>. DEFINE row == Row(m, kind, day, "begun", 0)
  <2>1. row \in Action /\ row.voids = 0 /\ row.kind \in MemberGains
    BY <1>1, Kinds, Statuses, RowTyped DEF Row
  <2>2. acts' = Appended(row) /\ Len(acts) < MaxActs /\ UNCHANGED <<today, cache, ended, term>>
    BY <1>2 DEF Propose, Appended
  <2>. HIDE DEF row
  <2>3. acts' \in Seq(Action) /\ Len(acts') <= MaxActs /\ VoidsOK'
    BY <2>1, <2>2, AppendKeeps
  <2>. QED BY <2>2, <2>3 DEF TypeInv, TypeOK
<1>3. ASSUME NEW i \in DOMAIN acts, Deny(i) \/ Withdraw(i) \/ ProposalCommitted(i) PROVE TypeInv'
  <2>1. PICK status \in Status : acts' = DecidedAs(i, status) /\ Undecided(acts[i])
    BY <1>3 DEF Deny, Withdraw, ProposalCommitted, Decided, DecidedAs, Undecided, Status
  <2>2. UNCHANGED <<today, cache, ended, term>>
    BY <1>3 DEF Deny, Withdraw, ProposalCommitted, Decided
  <2>. QED BY <2>1, <2>2, DecideKeeps DEF TypeInv, TypeOK
<1>4. ASSUME NEW i \in DOMAIN acts, Approve(i) PROVE TypeInv'
  <2>1. Commit(DecidedAs(i, "approved"), acts[i].of, ended)
    BY <1>4 DEF Approve, DecidedAs
  <2>2. acts' = DecidedAs(i, "approved")
    BY <2>1 DEF Commit
  <2>. Undecided(acts[i])
    BY <1>4 DEF Approve, Undecided
  <2>3. acts' \in Seq(Action) /\ Len(acts') <= MaxActs /\ VoidsOK'
    BY <2>2, Statuses, DecideKeeps
  <2>4. acts[i].of \in Membership
    BY <1>1, ActTyped
  <2>. QED BY <1>1, <2>1, <2>2, <2>3, <2>4, CommitTyped
<1>5. ASSUME NEW m \in Membership, NEW row \in Action, NEW ends \in [Membership -> Endings],
             Len(acts) < MaxActs, Commit(Appended(row), m, ends),
             row.voids # 0 => row.voids \in DOMAIN acts /\ acts[row.voids].of = row.of,
             ~Undecided(row)
      PROVE  TypeInv'
  <2>1. acts' = Appended(row)
    BY <1>5 DEF Commit
  <2>2. acts' \in Seq(Action) /\ Len(acts') <= MaxActs /\ VoidsOK'
    BY <1>5, <2>1, AppendKeeps
  <2>. QED BY <1>5, <2>1, <2>2, CommitTyped
<1>6. ASSUME NEW m \in Membership, NEW day \in Day, Enrol(m, day) PROVE TypeInv'
  <2>. DEFINE row == Row(m, "other_participant_enrolled", day, "approved", 0)
  <2>1. row \in Action /\ row.voids = 0 /\ ~Undecided(row)
    BY <1>1, Statuses, RowTyped DEF Row, OnRecord, Undecided
  <2>2. Commit(Appended(row), m, ended) /\ Len(acts) < MaxActs
    BY <1>6 DEF Enrol, Appended
  <2>. HIDE DEF row
  <2>. QED BY <1>1, <1>5, <2>1, <2>2
<1>7. ASSUME NEW m \in Membership, NEW day \in Day, Remove(m, day) PROVE TypeInv'
  <2>. DEFINE row == Row(m, "other_participant_removed", day, "approved", 0)
              ends == Ended(m, "removed", day)
  <2>1. row \in Action /\ row.voids = 0 /\ ~Undecided(row)
    BY <1>1, Statuses, RowTyped DEF Row, OnRecord, Undecided
  <2>2. Commit(Appended(row), m, ends) /\ Len(acts) < MaxActs
    BY <1>7 DEF Remove, Appended
  <2>3. ends \in [Membership -> Endings]
    BY EndingTyped
  <2>. HIDE DEF row, ends
  <2>. QED BY <1>5, <2>1, <2>2, <2>3
<1>8. ASSUME NEW i \in DOMAIN acts, Void(i) PROVE TypeInv'
  <2>. DEFINE m == acts[i].of
              row == Row(m, "void", today, "approved", i)
              ends == IF acts[i].kind = "other_participant_removed"
                      THEN [ended EXCEPT ![m] = Live] ELSE ended
  <2>1. m \in Membership /\ i \in Nat
    BY <1>1, ActTyped
  <2>2. row \in Action /\ row.voids = i /\ row.of = acts[i].of /\ ~Undecided(row)
    BY <1>1, <2>1, Statuses, RowTyped DEF Row, Undecided
  <2>3. Commit(Appended(row), m, ends) /\ Len(acts) < MaxActs
    BY <1>8 DEF Void, Appended
  <2>4. ends \in [Membership -> Endings]
    BY <1>1, <2>1, EndingTyped
  <2>. HIDE DEF m, row, ends
  <2>. QED BY <1>5, <2>1, <2>2, <2>3, <2>4
<1>9. ASSUME NEW m \in Membership, Archive(m) \/ Restore(m) PROVE TypeInv'
  <2>1. ended' \in [Membership -> Endings] /\ UNCHANGED <<today, acts, cache, term>>
    BY <1>1, <1>9, EndingTyped DEF Archive, Restore
  <2>. QED BY <2>1 DEF TypeInv, TypeOK, VoidsOK, Endings
<1>10. ASSUME NEW m \in Pastors, NEW day \in Day, StartTerm(m, day) PROVE TypeInv'
  <2>1. [starts |-> day, seen |-> FALSE] \in [starts: 0 .. LastDay, seen: BOOLEAN]
    BY DEF Day
  <2>. QED BY <1>10, <2>1 DEF StartTerm, TypeInv, TypeOK, VoidsOK
<1>11. ASSUME NEW m \in Pastors, TermCommitted(m) \/ EndTerm(m) PROVE TypeInv'
  <2>1. m \in Membership /\ NoTerm \in [starts: 0 .. LastDay, seen: BOOLEAN]
    BY DEF NoTerm
  <2>2. term' \in [Membership -> [starts: 0 .. LastDay, seen: BOOLEAN]]
    <3>1. [term[m] EXCEPT !.seen = TRUE] \in [starts: 0 .. LastDay, seen: BOOLEAN]
      BY <2>1 DEF TypeInv, TypeOK
    <3>2. CASE TermCommitted(m)
      BY <2>1, <3>1, <3>2 DEF TermCommitted, TypeInv, TypeOK
    <3>3. CASE EndTerm(m)
      BY <2>1, <3>3 DEF EndTerm, TypeInv, TypeOK
    <3>. QED BY <1>11, <3>2, <3>3
  <2>. QED BY <1>11, <2>2 DEF TermCommitted, EndTerm, TypeInv, TypeOK, VoidsOK
<1>12. CASE Reconcile
  <2>1. cache' \in [Membership -> Rolls]
    BY <1>12, RollTyped DEF Reconcile, RollToday, RollAsOf
  <2>. QED BY <1>12, <2>1 DEF Reconcile, TypeInv, TypeOK, VoidsOK
<1>13. CASE Tomorrow \/ UNCHANGED vars
  BY <1>13 DEF Tomorrow, vars, TypeInv, TypeOK, VoidsOK, Day
<1>. QED BY <1>2, <1>3, <1>4, <1>6, <1>7, <1>8, <1>9, <1>10, <1>11, <1>12, <1>13 DEF Next

LEMMA InitTyped == Init => TypeInv
<1>. SUFFICES ASSUME Init PROVE TypeInv
  OBVIOUS
<1>1. /\ Live \in [why: {"live", "removed", "archived"}, on: 0 .. LastDay]
      /\ NoTerm \in [starts: 0 .. LastDay, seen: BOOLEAN] /\ 1 \in Day
  BY DEF Live, NoTerm, Day
<1>. QED BY <1>1 DEF Init, TypeInv, TypeOK, VoidsOK, Rolls

(* The invariant of the roll actions: every variable has its type, and a   *)
(* void names an earlier action of its own membership (drizzle/0061).      *)
THEOREM TypeInvHolds == Spec => []TypeInv
<1>. QED BY InitTyped, StepTyped, PTL DEF Spec

(* Every variable keeps its type, and the table grows at its end only, so  *)
(* that a place in it is a row's recorded_at (drizzle/0012, 0061, 0062).   *)
THEOREM Typing == Spec => []TypeOK
<1>1. TypeInv => TypeOK
  BY DEF TypeInv
<1>. QED BY <1>1, TypeInvHolds, PTL

-------------------------------------------------------------------------------
(* The replay *)

(* Two tables with the same effective actions of a membership replay to    *)
(* the same roll on every day.                                             *)
LEMMA SameReplay ==
  ASSUME NEW log, NEW old, NEW m, Effective(log, m) = Effective(old, m),
         \A i \in Effective(old, m) : log[i].on = old[i].on /\ log[i].kind = old[i].kind
  PROVE  /\ \A day : RollAsOf(log, m, day) = RollAsOf(old, m, day)
         /\ LastOf(log, Effective(log, m)) = LastOf(old, Effective(old, m))
<1>1. ASSUME NEW rows \in SUBSET Effective(old, m)
      PROVE  LastOf(log, rows) = LastOf(old, rows)
  BY <1>1 DEF LastOf, Before
<1>2. ASSUME NEW rows \in SUBSET Effective(old, m)
      PROVE  RollOfRows(log, rows) = RollOfRows(old, rows)
  <2>1. CASE rows = {}
    BY <2>1 DEF RollOfRows
  <2>2. CASE rows # {}
    <3>1. (CHOOSE i \in rows : TRUE) \in rows
      BY <2>2
    <3>. QED BY <2>2, <3>1 DEF RollOfRows
  <2>. QED BY <2>1, <2>2
<1>3. ASSUME NEW day
      PROVE  RollAsOf(log, m, day) = RollAsOf(old, m, day)
  <2>. DEFINE due == {i \in Effective(old, m) : old[i].on <= day}
  <2>1. {i \in Effective(log, m) : log[i].on <= day} = due
    OBVIOUS
  <2>2. LastOf(log, due) = LastOf(old, due) /\ LastOf(old, due) \subseteq Effective(old, m)
    BY <1>1 DEF LastOf
  <2>3. RollAsOf(log, m, day) = RollOfRows(log, LastOf(old, due))
    BY <2>1, <2>2 DEF RollAsOf
  <2>4. RollAsOf(old, m, day) = RollOfRows(old, LastOf(old, due))
    BY DEF RollAsOf
  <2>. QED BY <1>2, <2>2, <2>3, <2>4
<1>4. LastOf(log, Effective(log, m)) = LastOf(old, Effective(old, m))
  BY <1>1
<1>. QED BY <1>3, <1>4

(* A table that a transaction for m made of acts: the rows there were keep *)
(* what they say, and those of other memberships their status as well.     *)
Grown(log, m) ==
  /\ log \in Seq(Action) /\ DOMAIN acts \subseteq DOMAIN log
  /\ \A i \in DOMAIN acts :
       /\ log[i].of = acts[i].of /\ log[i].on = acts[i].on
       /\ log[i].kind = acts[i].kind /\ log[i].voids = acts[i].voids
       /\ acts[i].of # m => log[i].status = acts[i].status
  /\ \A i \in DOMAIN log \ DOMAIN acts :
       /\ log[i].of = m
       /\ log[i].voids # 0 => log[i].voids \in DOMAIN acts /\ acts[log[i].voids].of = m

LEMMA Elsewhere ==
  ASSUME TypeInv, NEW m \in Membership, NEW log, Grown(log, m), NEW n \in Membership, n # m
  PROVE  /\ Effective(log, n) = Effective(acts, n)
         /\ \A day : RollAsOf(log, n, day) = RollAsOf(acts, n, day)
         /\ LastOf(log, Effective(log, n)) = Latest(n)
<1>1. ASSUME NEW i \in DOMAIN acts, acts[i].of = n
      PROVE  Voided(log, i) <=> Voided(acts, i)
  <2>1. i # 0
    BY ActTyped DEF TypeInv, TypeOK
  <2>2. ASSUME NEW j \in DOMAIN log, log[j].voids = i
        PROVE  j \in DOMAIN acts /\ acts[j].of = n
    BY <1>1, <2>1, <2>2 DEF Grown, TypeInv, VoidsOK
  <2>3. ASSUME NEW j \in DOMAIN acts, acts[j].voids = i PROVE acts[j].of = n
    BY <1>1, <2>1, <2>3 DEF TypeInv, VoidsOK
  <2>. QED BY <2>2, <2>3 DEF Voided, Grown
<1>2. Effective(log, n) = Effective(acts, n)
  BY <1>1 DEF Effective, Grown
<1>3. \A i \in Effective(acts, n) : log[i].on = acts[i].on /\ log[i].kind = acts[i].kind
  BY DEF Effective, Grown
<1>. QED BY <1>2, <1>3, SameReplay DEF Latest

LEMMA GrownByRow ==
  ASSUME TypeInv, NEW row \in Action,
         row.voids # 0 => row.voids \in DOMAIN acts /\ acts[row.voids].of = row.of
  PROVE  Grown(Appended(row), row.of)
<1>1. acts \in Seq(Action)
  BY DEF TypeInv, TypeOK
<1>2. ASSUME NEW i \in DOMAIN Appended(row) \ DOMAIN acts PROVE Appended(row)[i] = row
  BY <1>1, AppendedShape
<1>3. Appended(row) \in Seq(Action) /\ DOMAIN acts \subseteq DOMAIN Appended(row)
  BY <1>1, AppendedShape
<1>4. \A i \in DOMAIN acts : Appended(row)[i] = acts[i]
  BY <1>1, AppendedShape
<1>. QED BY <1>2, <1>3, <1>4 DEF Grown

LEMMA GrownByDecision ==
  ASSUME TypeInv, NEW i \in DOMAIN acts, NEW status \in Status
  PROVE  Grown(DecidedAs(i, status), acts[i].of)
<1>1. acts \in Seq(Action) /\ acts[i] \in Action
  BY ActTyped DEF TypeInv, TypeOK
<1>2. DecidedAs(i, status) \in Seq(Action) /\ DOMAIN DecidedAs(i, status) = DOMAIN acts
  BY <1>1, DecidedShape
<1>3. ASSUME NEW j \in DOMAIN acts
      PROVE  /\ DecidedAs(i, status)[j].of = acts[j].of /\ DecidedAs(i, status)[j].on = acts[j].on
             /\ DecidedAs(i, status)[j].kind = acts[j].kind
             /\ DecidedAs(i, status)[j].voids = acts[j].voids
             /\ acts[j].of # acts[i].of => DecidedAs(i, status)[j].status = acts[j].status
  <2>1. CASE j = i
    <3>1. DecidedAs(i, status)[i] = [acts[i] EXCEPT !.status = status]
      BY <1>1, DecidedShape
    <3>. QED BY <1>1, <2>1, <3>1, StatusTyped
  <2>2. CASE j # i
    <3>1. DecidedAs(i, status)[j] = acts[j]
      BY <1>1, <2>2, DecidedElsewhere
    <3>. QED BY <3>1
  <2>. QED BY <2>1, <2>2
<1>. QED BY <1>2, <1>3 DEF Grown

(* What is not approved has no part in the replay.                         *)
LEMMA PendingUnseen ==
  ASSUME TypeInv, NEW m \in Membership, NEW log, Grown(log, m),
         \A i \in DOMAIN acts : log[i].status = "approved" <=> acts[i].status = "approved",
         \A i \in DOMAIN log \ DOMAIN acts : log[i].status # "approved"
  PROVE  \A n \in Membership : /\ Effective(log, n) = Effective(acts, n)
                               /\ \A day : RollAsOf(log, n, day) = RollAsOf(acts, n, day)
                               /\ LastOf(log, Effective(log, n)) = Latest(n)
<1>1. \A i \in DOMAIN acts : Voided(log, i) <=> Voided(acts, i)
  BY DEF Voided, Grown
<1>2. \A n \in Membership : Effective(log, n) = Effective(acts, n)
  BY <1>1 DEF Effective, Grown
<1>3. \A n \in Membership : \A i \in Effective(acts, n) : log[i].on = acts[i].on /\ log[i].kind = acts[i].kind
  BY DEF Effective, Grown
<1>. QED BY <1>2, <1>3, SameReplay DEF Latest

(* How the table and the cache change in a step: not in the replay, or by  *)
(* a commit for one membership, or the sweep writes the cache.             *)
Quiet ==
  \A n \in Membership : /\ Effective(acts', n) = Effective(acts, n)
                        /\ \A i \in Effective(acts, n) :
                              acts'[i].on = acts[i].on /\ acts'[i].kind = acts[i].kind
                        /\ \A day : RollAsOf(acts', n, day) = RollAsOf(acts, n, day)
                        /\ LastOf(acts', Effective(acts', n)) = Latest(n)

LEMMA UnseenIsQuiet ==
  ASSUME TypeInv, Next,
         \/ \E m \in Membership, kind \in Gains, day \in Day : Propose(m, kind, day)
         \/ \E i \in DOMAIN acts : Deny(i) \/ Withdraw(i) \/ ProposalCommitted(i)
  PROVE  Quiet /\ UNCHANGED <<today, cache, ended, term>>
<1>1. ASSUME NEW m \in Membership, Grown(acts', m),
             \A i \in DOMAIN acts : acts'[i].status = "approved" <=> acts[i].status = "approved",
             \A i \in DOMAIN acts' \ DOMAIN acts : acts'[i].status # "approved"
      PROVE  Quiet
  <2>. DEFINE log == acts'
  <2>1. Grown(log, m)
    BY <1>1
  <2>2. \A n \in Membership : /\ Effective(log, n) = Effective(acts, n)
                              /\ \A day : RollAsOf(log, n, day) = RollAsOf(acts, n, day)
                              /\ LastOf(log, Effective(log, n)) = Latest(n)
    BY <1>1, PendingUnseen
  <2>3. \A i \in DOMAIN acts : log[i].on = acts[i].on /\ log[i].kind = acts[i].kind
    BY <2>1 DEF Grown
  <2>4. \A n \in Membership : Effective(acts, n) \subseteq DOMAIN acts
    BY DEF Effective
  <2>. QED BY <2>2, <2>3, <2>4 DEF Quiet
<1>2. ASSUME NEW m \in Membership, NEW kind \in Gains, NEW day \in Day, Propose(m, kind, day)
      PROVE  Quiet /\ UNCHANGED <<today, cache, ended, term>>
  <2>. DEFINE row == Row(m, kind, day, "begun", 0)
  <2>1. row \in Action /\ row.voids = 0 /\ row.status = "begun" /\ row.of = m
    BY Kinds, Statuses, RowTyped DEF Row
  <2>2. acts' = Appended(row) /\ UNCHANGED <<today, cache, ended, term>>
    BY <1>2 DEF Propose, Appended
  <2>. HIDE DEF row
  <2>3. Grown(acts', m)
    BY <2>1, <2>2, GrownByRow
  <2>4. acts \in Seq(Action)
    BY DEF TypeInv, TypeOK
  <2>5. /\ \A i \in DOMAIN acts : acts'[i] = acts[i]
        /\ \A i \in DOMAIN acts' \ DOMAIN acts : acts'[i] = row
    BY <2>1, <2>2, <2>4, AppendedShape
  <2>. QED BY <1>1, <2>1, <2>2, <2>3, <2>5
<1>3. ASSUME NEW i \in DOMAIN acts, Deny(i) \/ Withdraw(i) \/ ProposalCommitted(i)
      PROVE  Quiet /\ UNCHANGED <<today, cache, ended, term>>
  <2>1. PICK status \in Status \ {"approved"} :
          /\ acts[i].status # "approved" /\ acts' = DecidedAs(i, status)
          /\ UNCHANGED <<today, cache, ended, term>>
    BY <1>3 DEF Deny, Withdraw, ProposalCommitted, Decided, DecidedAs, Status
  <2>2. acts \in Seq(Action) /\ acts[i] \in Action /\ acts[i].of \in Membership
    BY ActTyped DEF TypeInv, TypeOK
  <2>3. Grown(acts', acts[i].of) /\ DOMAIN acts' = DOMAIN acts
    BY <2>1, <2>2, GrownByDecision, DecidedShape
  <2>4. ASSUME NEW j \in DOMAIN acts
        PROVE  acts'[j].status = "approved" <=> acts[j].status = "approved"
    <3>1. CASE j = i
      <4>1. acts'[i] = [acts[i] EXCEPT !.status = status]
        BY <2>1, <2>2, DecidedShape
      <4>. QED BY <2>1, <2>2, <3>1, <4>1, StatusTyped
    <3>2. CASE j # i
      <4>1. acts'[j] = acts[j]
        BY <2>1, <2>2, <3>2, DecidedElsewhere
      <4>. QED BY <4>1
    <3>. QED BY <3>1, <3>2
  <2>. QED BY <1>1, <2>1, <2>2, <2>3, <2>4
<1>. QED BY <1>2, <1>3

-------------------------------------------------------------------------------
(* The cache *)

LEMMA CommitStale ==
  ASSUME TypeInv, StaleByTheCalendar, NEW m \in Membership, NEW log, NEW ends,
         Grown(log, m), Commit(log, m, ends)
  PROVE  StaleByTheCalendar'
<1>1. acts' = log /\ cache' = Projected(log, m) /\ today' = today
  BY DEF Commit
<1>2. today \in 1 .. today /\ cache \in [Membership -> Rolls]
  BY DEF TypeInv, TypeOK, Day
<1>3. ASSUME NEW n \in Membership
      PROVE  \E day \in 1 .. today : cache'[n] = RollAsOf(log, n, day)
  <2>1. CASE n = m
    <3>1. cache'[m] = RollAsOf(log, m, today)
      BY <1>1, <1>2 DEF Projected
    <3>. QED BY <1>2, <2>1, <3>1
  <2>2. CASE n # m
    <3>1. cache'[n] = cache[n]
      BY <1>1, <1>2, <2>2 DEF Projected
    <3>2. \A day : RollAsOf(log, n, day) = RollAsOf(acts, n, day)
      BY <2>2, Elsewhere
    <3>3. PICK day \in 1 .. today : cache[n] = RollAsOf(acts, n, day)
      BY DEF StaleByTheCalendar
    <3>. QED BY <3>1, <3>2, <3>3
  <2>. QED BY <2>1, <2>2
<1>. QED BY <1>1, <1>3 DEF StaleByTheCalendar

(* The commits of one membership, in one place.                            *)
LEMMA CommitGrown ==
  ASSUME TypeInv, Next,
         \/ \E i \in DOMAIN acts : Approve(i) \/ Void(i)
         \/ \E m \in Membership, day \in Day : Enrol(m, day) \/ Remove(m, day)
  PROVE  \E m \in Membership : \E log, ends : Grown(log, m) /\ Commit(log, m, ends)
<1>1. /\ acts \in Seq(Action) /\ today \in Day
      /\ "approved" \in Status
  BY Statuses DEF TypeInv, TypeOK
<1>2. ASSUME NEW i \in DOMAIN acts, Approve(i)
      PROVE  \E m \in Membership : \E log, ends : Grown(log, m) /\ Commit(log, m, ends)
  <2>1. Commit(DecidedAs(i, "approved"), acts[i].of, ended)
    BY <1>2 DEF Approve, DecidedAs
  <2>. QED BY <1>1, <2>1, ActTyped, GrownByDecision
<1>3. ASSUME NEW i \in DOMAIN acts, Void(i)
      PROVE  \E m \in Membership : \E log, ends : Grown(log, m) /\ Commit(log, m, ends)
  <2>. DEFINE row == Row(acts[i].of, "void", today, "approved", i)
  <2>1. \E ends : Commit(Appended(row), acts[i].of, ends)
    BY <1>3 DEF Void, Appended
  <2>2. acts[i].of \in Membership /\ i \in Nat
    BY <1>1, ActTyped
  <2>3. row \in Action /\ row.voids = i /\ row.of = acts[i].of
    BY <1>1, <2>2, Statuses, RowTyped DEF Row
  <2>. HIDE DEF row
  <2>4. Grown(Appended(row), acts[i].of)
    BY <2>3, GrownByRow
  <2>. QED BY <2>1, <2>2, <2>4
<1>4. ASSUME NEW m \in Membership, NEW day \in Day, NEW kind \in OnRecord, NEW ends,
             Commit(Appended(Row(m, kind, day, "approved", 0)), m, ends)
      PROVE  \E log, end : Grown(log, m) /\ Commit(log, m, end)
  <2>. DEFINE row == Row(m, kind, day, "approved", 0)
  <2>1. row \in Action /\ row.voids = 0 /\ row.of = m
    BY Statuses, RowTyped DEF Row
  <2>. HIDE DEF row
  <2>2. Grown(Appended(row), m)
    BY <2>1, GrownByRow
  <2>. QED BY <1>4, <2>2 DEF row
<1>5. ASSUME NEW m \in Membership, NEW day \in Day, Enrol(m, day)
      PROVE  \E log, end : Grown(log, m) /\ Commit(log, m, end)
  <2>1. Commit(Appended(Row(m, "other_participant_enrolled", day, "approved", 0)), m, ended)
    BY <1>5 DEF Enrol, Appended
  <2>. QED BY <1>4, <2>1 DEF OnRecord
<1>6. ASSUME NEW m \in Membership, NEW day \in Day, Remove(m, day)
      PROVE  \E log, end : Grown(log, m) /\ Commit(log, m, end)
  <2>1. Commit(Appended(Row(m, "other_participant_removed", day, "approved", 0)), m,
               Ended(m, "removed", day))
    BY <1>6 DEF Remove, Appended
  <2>. QED BY <1>4, <2>1 DEF OnRecord
<1>. QED BY <1>2, <1>3, <1>5, <1>6

LEMMA StepStale == TypeInv /\ StaleByTheCalendar /\ [Next]_vars => StaleByTheCalendar'
<1>. SUFFICES ASSUME TypeInv, StaleByTheCalendar, [Next]_vars PROVE StaleByTheCalendar'
  OBVIOUS
<1>1. today \in 1 .. today /\ today \in Nat
  BY DEF TypeInv, TypeOK, Day
<1>2. CASE \/ Next /\ \E i \in DOMAIN acts : Approve(i) \/ Void(i)
           \/ Next /\ \E m \in Membership, day \in Day : Enrol(m, day) \/ Remove(m, day)
  BY <1>2, CommitGrown, CommitStale
<1>3. CASE \/ Next /\ \E m \in Membership, kind \in Gains, day \in Day : Propose(m, kind, day)
           \/ Next /\ \E i \in DOMAIN acts : Deny(i) \/ Withdraw(i) \/ ProposalCommitted(i)
  <2>1. Quiet /\ UNCHANGED <<today, cache, ended, term>>
    BY <1>3, UnseenIsQuiet
  <2>2. ASSUME NEW m \in Membership
        PROVE  \E day \in 1 .. today' : cache'[m] = RollAsOf(acts', m, day)
    <3>1. PICK day \in 1 .. today : cache[m] = RollAsOf(acts, m, day)
      BY DEF StaleByTheCalendar
    <3>2. RollAsOf(acts', m, day) = RollAsOf(acts, m, day)
      BY <2>1 DEF Quiet
    <3>. QED BY <2>1, <3>1, <3>2
  <2>. QED BY <2>2 DEF StaleByTheCalendar
<1>4. CASE UNCHANGED <<today, acts, cache>>
  BY <1>4 DEF StaleByTheCalendar, RollAsOf, RollOfRows, LastOf, Before, Effective, Voided
<1>5. CASE Reconcile
  BY <1>1, <1>5 DEF Reconcile, StaleByTheCalendar, RollToday
<1>6. CASE Tomorrow
  <2>1. UNCHANGED <<acts, cache>> /\ 1 .. today \subseteq 1 .. today'
    BY <1>1, <1>6 DEF Tomorrow
  <2>. QED BY <2>1 DEF StaleByTheCalendar
<1>7. ASSUME NEW m \in Membership, Archive(m) \/ Restore(m) PROVE UNCHANGED <<today, acts, cache>>
  BY <1>7 DEF Archive, Restore
<1>8. ASSUME NEW m \in Pastors, NEW day \in Day, StartTerm(m, day)
      PROVE  UNCHANGED <<today, acts, cache>>
  BY <1>8 DEF StartTerm
<1>9. ASSUME NEW m \in Pastors, TermCommitted(m) \/ EndTerm(m)
      PROVE  UNCHANGED <<today, acts, cache>>
  BY <1>9 DEF TermCommitted, EndTerm
<1>10. CASE UNCHANGED vars
  BY <1>4, <1>10 DEF vars
<1>. QED BY <1>2, <1>3, <1>4, <1>5, <1>6, <1>7, <1>8, <1>9, <1>10 DEF Next

(* The cached roll is the replay's of some day already reached: what makes *)
(* it wrong is only an action dated ahead that has come due since, never a *)
(* write of the register, another membership's included                    *)
(* (presby_sync_current_roll, presby_reconcile_current_roll).              *)
THEOREM StaleByTheCalendarHolds == Spec => []StaleByTheCalendar
<1>1. Init => StaleByTheCalendar
  BY DEF Init, StaleByTheCalendar, RollAsOf, RollOfRows, LastOf, Effective
<1>2. TypeInv /\ StaleByTheCalendar /\ [Next]_vars => StaleByTheCalendar'
  BY StepStale
<1>. QED BY <1>1, <1>2, TypeInvHolds, PTL DEF Spec

-------------------------------------------------------------------------------
(* Removal *)

Removals(log, m) == {j \in Effective(log, m) : log[j].kind = "other_participant_removed"}

(* A removal in effect is the latest action of its membership and has      *)
(* ended it that day; a membership ended as a removal has one.             *)
RemovalsOf(m) ==
  /\ \A j \in Removals(acts, m) :
       j \in Latest(m) /\ ended[m] = [why |-> "removed", on |-> acts[j].on]
  /\ ended[m].why = "removed" => Removals(acts, m) # {}

RemovedInv == \A m \in Membership : RemovalsOf(m)

LEMMA OnlyLatest ==
  ASSUME TypeInv, NEW m \in Membership, NEW i \in Latest(m), NEW j \in Latest(m)
  PROVE  i = j
<1>1. i \in DOMAIN acts /\ j \in DOMAIN acts /\ acts \in Seq(Action)
  BY DEF Latest, LastOf, Effective, TypeInv, TypeOK
<1>2. i \in Nat /\ j \in Nat /\ acts[i].on \in Nat /\ acts[j].on \in Nat
  BY <1>1, ActTyped DEF Day
<1>. QED BY <1>2 DEF Latest, LastOf, Before

LEMMA RemovedOne ==
  ASSUME TypeInv, RemovedInv
  PROVE  RemovedAsRecorded
<1>. SUFFICES ASSUME NEW m \in Membership
              PROVE  {acts[i].on : i \in {j \in Latest(m) : acts[j].kind = "other_participant_removed"}}
                       = IF ended[m].why = "removed" THEN {ended[m].on} ELSE {}
  BY DEF RemovedAsRecorded
<1>1. RemovalsOf(m)
  BY DEF RemovedInv
<1>2. {j \in Latest(m) : acts[j].kind = "other_participant_removed"} = Removals(acts, m)
  BY <1>1 DEF RemovalsOf, Removals, Latest, LastOf
<1>3. ASSUME NEW j \in Removals(acts, m)
      PROVE  ended[m].why = "removed" /\ ended[m].on = acts[j].on
  <2>1. ended[m] = [why |-> "removed", on |-> acts[j].on]
    BY <1>1 DEF RemovalsOf
  <2>. QED BY <2>1
<1>4. {acts[i].on : i \in Removals(acts, m)} = IF ended[m].why = "removed" THEN {ended[m].on} ELSE {}
  <2>1. CASE ended[m].why = "removed"
    <3>1. Removals(acts, m) # {}
      BY <1>1, <2>1 DEF RemovalsOf
    <3>. QED BY <1>3, <2>1, <3>1
  <2>2. CASE ended[m].why # "removed"
    BY <1>3, <2>2
  <2>. QED BY <2>1, <2>2
<1>. QED BY <1>2, <1>4

(* The effective actions after a commit for m.                             *)
LEMMA EffectiveByRow ==
  ASSUME TypeInv, NEW row \in Action, row.status = "approved", row.voids = 0, row.kind # "void"
  PROVE  Effective(Appended(row), row.of) = Effective(acts, row.of) \cup {Len(acts) + 1}
<1>. DEFINE log == Appended(row)
            k == Len(acts) + 1
<1>1. acts \in Seq(Action) /\ k \in Nat \ {0}
  BY DEF TypeInv, TypeOK
<1>2. /\ DOMAIN log = DOMAIN acts \cup {k} /\ k \notin DOMAIN acts /\ log[k] = row
      /\ \A i \in DOMAIN acts : log[i] = acts[i]
  BY <1>1, AppendedShape
<1>. HIDE DEF log, k
<1>3. \A i \in DOMAIN acts : i # 0
  BY <1>1, ActTyped
<1>4. \A i \in DOMAIN acts : Voided(log, i) <=> Voided(acts, i)
  BY <1>2, <1>3 DEF Voided
<1>5. ~Voided(log, k)
  BY <1>1, <1>2 DEF Voided, TypeInv, VoidsOK
<1>6. Effective(log, row.of) = Effective(acts, row.of) \cup {k}
  BY <1>2, <1>4, <1>5 DEF Effective
<1>. QED BY <1>6 DEF log, k

LEMMA EffectiveByVoid ==
  ASSUME TypeInv, NEW i \in DOMAIN acts, NEW row \in Action, row.status = "approved",
         row.voids = i, row.kind = "void"
  PROVE  Effective(Appended(row), acts[i].of) = Effective(acts, acts[i].of) \ {i}
<1>. DEFINE log == Appended(row)
            k == Len(acts) + 1
<1>1. acts \in Seq(Action)
  BY DEF TypeInv, TypeOK
<1>2. /\ DOMAIN log = DOMAIN acts \cup {k} /\ k \notin DOMAIN acts /\ log[k] = row
      /\ \A j \in DOMAIN acts : log[j] = acts[j]
  BY <1>1, AppendedShape
<1>. HIDE DEF log, k
<1>3. \A j \in DOMAIN acts : Voided(log, j) <=> (Voided(acts, j) \/ j = i)
  BY <1>2 DEF Voided
<1>4. Effective(log, acts[i].of) = Effective(acts, acts[i].of) \ {i}
  BY <1>2, <1>3 DEF Effective
<1>. QED BY <1>4 DEF log

LEMMA EffectiveByApproval ==
  ASSUME TypeInv, NEW i \in DOMAIN acts, acts[i].status = "pending", NEW m \in Membership
  PROVE  Effective(DecidedAs(i, "approved"), m) \subseteq Effective(acts, m) \cup {i}
<1>. DEFINE log == DecidedAs(i, "approved")
<1>1. acts \in Seq(Action) /\ acts[i] \in Action
  BY DEF TypeInv, TypeOK
<1>2. DOMAIN log = DOMAIN acts /\ log[i] = [acts[i] EXCEPT !.status = "approved"]
  BY <1>1, Statuses, DecidedShape
<1>3. \A j \in DOMAIN acts : j # i => log[j] = acts[j]
  BY <1>1, Statuses, DecidedElsewhere
<1>4. acts[i].status # "approved"
  OBVIOUS
<1>. HIDE DEF log
<1>5. \A j \in DOMAIN acts : Voided(acts, j) => Voided(log, j)
  BY <1>2, <1>3, <1>4 DEF Voided
<1>6. Effective(log, m) \subseteq Effective(acts, m) \cup {i}
  BY <1>2, <1>3, <1>5 DEF Effective
<1>. QED BY <1>6 DEF log

LEMMA RemovalsElsewhere ==
  ASSUME TypeInv, RemovedInv, NEW m \in Membership, Grown(acts', m), NEW n \in Membership, n # m,
         ended'[n] = ended[n]
  PROVE  RemovalsOf(n)'
<1>. DEFINE log == acts'
<1>1. Effective(log, n) = Effective(acts, n) /\ LastOf(log, Effective(log, n)) = Latest(n)
  <2>1. Grown(log, m)
    OBVIOUS
  <2>. QED BY <2>1, Elsewhere
<1>2. \A j \in Effective(acts, n) : log[j].on = acts[j].on /\ log[j].kind = acts[j].kind
  BY DEF Grown, Effective
<1>3. Removals(log, n) = Removals(acts, n)
  BY <1>1, <1>2 DEF Removals
<1>4. \A j \in Removals(acts, n) : log[j].on = acts[j].on
  BY <1>2 DEF Removals
<1>5. RemovalsOf(n)
  BY DEF RemovedInv
<1>. QED BY <1>1, <1>3, <1>4, <1>5 DEF RemovalsOf, Latest

LEMMA StepRemoved == TypeInv /\ RemovedInv /\ [Next]_vars => RemovedInv'
<1>. SUFFICES ASSUME TypeInv, RemovedInv, [Next]_vars PROVE RemovedInv'
  OBVIOUS
<1>1. /\ acts \in Seq(Action) /\ today \in Day /\ ended \in [Membership -> Endings]
      /\ cache \in [Membership -> Rolls]
      /\ "approved" \in Status /\ 0 \in Nat
  BY Statuses DEF TypeInv, TypeOK, Endings
(* A commit for m that leaves it without a removal and not ended as one.   *)
<1>2. ASSUME NEW m \in Membership, Grown(acts', m), \A n \in Membership \ {m} : ended'[n] = ended[n],
             RemovalsOf(m)'
      PROVE  RemovedInv'
  BY <1>2, RemovalsElsewhere DEF RemovedInv
<1>3. ASSUME NEW m \in Membership, ended[m].why # "removed" PROVE Removals(acts, m) = {}
  <2>1. ASSUME NEW j \in Removals(acts, m) PROVE FALSE
    <3>1. ended[m] = [why |-> "removed", on |-> acts[j].on]
      BY DEF RemovedInv, RemovalsOf
    <3>. QED BY <1>3, <3>1
  <2>. QED BY <2>1
<1>4. Live.why # "removed"
  BY DEF Live
<1>5. ASSUME NEW i \in DOMAIN acts, Approve(i) PROVE RemovedInv'
  <2>. DEFINE log == DecidedAs(i, "approved")
  <2>0. PICK m \in Membership : m = acts[i].of
    BY <1>1, ActTyped
  <2>1. Commit(log, m, ended) /\ ended[m] = Live /\ acts[i].status = "pending"
    BY <1>5, <2>0 DEF Approve, DecidedAs
  <2>2. acts[i].kind \in MemberGains /\ acts[i] \in Action
    BY <1>1, <2>1, ActTyped DEF TypeInv, VoidsOK, Undecided
  <2>3. Grown(log, m) /\ Effective(log, m) \subseteq Effective(acts, m) \cup {i}
    BY <2>0, <2>1, <2>2, Statuses, GrownByDecision, EffectiveByApproval
  <2>4. log[i] = [acts[i] EXCEPT !.status = "approved"]
    BY <1>1, DecidedShape
  <2>. HIDE DEF log
  <2>5. log[i].kind = acts[i].kind
    BY <2>2, <2>4, StatusTyped
  <2>6. acts' = log /\ ended' = ended
    BY <2>1 DEF Commit
  <2>7. Effective(acts, m) \subseteq DOMAIN acts /\ Removals(acts, m) = {}
    BY <1>3, <1>4, <2>1, <2>2 DEF Effective
  <2>8. Removals(log, m) = {}
    BY <2>2, <2>3, <2>5, <2>7, Kinds DEF Removals, Grown
  <2>9. RemovalsOf(m)'
    BY <1>4, <2>1, <2>6, <2>8 DEF RemovalsOf
  <2>. QED BY <1>2, <2>2, <2>3, <2>6, <2>9
<1>6. ASSUME NEW m \in Membership, NEW day \in Day, Enrol(m, day) PROVE RemovedInv'
  <2>. DEFINE row == Row(m, "other_participant_enrolled", day, "approved", 0)
              log == Appended(row)
              k == Len(acts) + 1
  <2>1. /\ row \in Action /\ row.voids = 0 /\ row.status = "approved" /\ row.of = m
        /\ row.kind = "other_participant_enrolled"
    BY <1>1, Statuses, RowTyped DEF Row, OnRecord
  <2>2. Commit(log, m, ended) /\ ended[m] = Live
    BY <1>6 DEF Enrol, Appended
  <2>. HIDE DEF row
  <2>3. Grown(log, m) /\ Effective(log, m) = Effective(acts, m) \cup {k} /\ log[k] = row
    BY <1>1, <2>1, GrownByRow, EffectiveByRow, AppendedShape
  <2>4. acts' = log /\ ended' = ended
    BY <2>2 DEF Commit
  <2>5. Effective(acts, m) \subseteq DOMAIN acts /\ Removals(acts, m) = {}
    BY <1>3, <1>4, <2>2 DEF Effective
  <2>. HIDE DEF log, k
  <2>6. Removals(log, m) = {}
    BY <2>1, <2>3, <2>5 DEF Removals, Grown
  <2>7. RemovalsOf(m)'
    BY <1>4, <2>2, <2>4, <2>6 DEF RemovalsOf
  <2>. QED BY <1>2, <2>3, <2>4, <2>7
<1>7. ASSUME NEW m \in Membership, NEW day \in Day, Remove(m, day) PROVE RemovedInv'
  <2>. DEFINE row == Row(m, "other_participant_removed", day, "approved", 0)
              log == Appended(row)
              k == Len(acts) + 1
  <2>1. /\ row \in Action /\ row.voids = 0 /\ row.status = "approved" /\ row.of = m
        /\ row.kind = "other_participant_removed" /\ row.on = day
    BY <1>1, Statuses, RowTyped DEF Row, OnRecord
  <2>2. Commit(log, m, Ended(m, "removed", day)) /\ ended[m] = Live
    BY <1>7 DEF Remove, Appended
  <2>3. PICK i \in Latest(m) : acts[i].on <= day
    BY <1>7 DEF Remove
  <2>. HIDE DEF row
  <2>4. Grown(log, m) /\ Effective(log, m) = Effective(acts, m) \cup {k} /\ log[k] = row
    BY <1>1, <2>1, GrownByRow, EffectiveByRow, AppendedShape
  <2>5. acts' = log /\ ended' = [ended EXCEPT ![m] = [why |-> "removed", on |-> day]]
    BY <2>2 DEF Commit, Ended
  <2>6. Effective(acts, m) \subseteq DOMAIN acts /\ Removals(acts, m) = {}
    BY <1>3, <1>4, <2>2 DEF Effective
  <2>7. \A j \in Effective(acts, m) : acts[j].on <= day /\ acts[j].on \in Nat /\ j < k
    <3>1. ASSUME NEW j \in DOMAIN acts PROVE acts[j].on \in Nat /\ j < k
      BY <1>1, ActTyped DEF Day
    <3>2. i \in DOMAIN acts /\ day \in Nat
      BY <2>6 DEF Latest, LastOf, Day
    <3>. QED BY <2>3, <2>6, <3>1, <3>2 DEF Latest, LastOf, Before
  <2>8. k \notin DOMAIN acts
    BY <1>1, AppendedShape
  <2>. HIDE DEF log, k
  <2>9. Removals(log, m) = {k}
    BY <2>1, <2>4, <2>6 DEF Removals, Grown
  <2>10. \A j \in Effective(log, m) \ {k} : Before(log, j, k)
    <3>1. ASSUME NEW j \in Effective(acts, m) PROVE Before(log, j, k)
      <4>1. log[j].on = acts[j].on /\ log[k].on = day /\ day \in Nat
        BY <2>1, <2>4, <2>6 DEF Grown, Day
      <4>. QED BY <2>7, <4>1 DEF Before
    <3>. QED BY <2>4, <3>1
  <2>11. k \in LastOf(log, Effective(log, m))
    BY <2>4, <2>10 DEF LastOf
  <2>12. ended'[m] = [why |-> "removed", on |-> day] /\ \A n \in Membership \ {m} : ended'[n] = ended[n]
    BY <1>1, <2>5
  <2>13. RemovalsOf(m)'
    BY <2>1, <2>4, <2>5, <2>9, <2>11, <2>12 DEF RemovalsOf, Latest
  <2>. QED BY <1>2, <2>4, <2>5, <2>12, <2>13
<1>8. ASSUME NEW i \in DOMAIN acts, Void(i) PROVE RemovedInv'
  <2>0. PICK m \in Membership : m = acts[i].of
    BY <1>1, ActTyped
  <2>. DEFINE row == Row(m, "void", today, "approved", i)
              log == Appended(row)
              ends == IF acts[i].kind = "other_participant_removed"
                      THEN [ended EXCEPT ![m] = Live] ELSE ended
  <2>1. Commit(log, m, ends) /\ i \in Latest(m)
    BY <1>8, <2>0 DEF Void, Appended
  <2>2. i \in Nat \ {0}
    BY <1>1, ActTyped
  <2>3. /\ row \in Action /\ row.voids = i /\ row.status = "approved" /\ row.of = m
        /\ row.kind = "void"
    BY <1>1, <2>2, Statuses, RowTyped DEF Row
  <2>. HIDE DEF row
  <2>4. Grown(log, m) /\ Effective(log, m) = Effective(acts, m) \ {i}
    BY <2>0, <2>3, GrownByRow, EffectiveByVoid
  <2>5. acts' = log /\ ended' = ends
    BY <2>1 DEF Commit
  <2>6. Effective(acts, m) \subseteq DOMAIN acts
    BY DEF Effective
  <2>7. ASSUME NEW j \in Removals(acts, m) PROVE j = i
    <3>1. j \in Latest(m)
      BY DEF RemovedInv, RemovalsOf
    <3>. QED BY <2>1, <3>1, OnlyLatest
  <2>8. \A n \in Membership \ {m} : ends[n] = ended[n]
    BY <1>1
  <2>9. ends[m].why # "removed"
    <3>1. CASE acts[i].kind = "other_participant_removed"
      BY <1>1, <1>4, <2>2, <3>1
    <3>2. CASE acts[i].kind # "other_participant_removed"
      <4>1. Removals(acts, m) = {}
        BY <2>7, <3>2 DEF Removals
      <4>. QED BY <2>2, <3>2, <4>1 DEF RemovedInv, RemovalsOf
    <3>. QED BY <3>1, <3>2
  <2>. HIDE DEF log, ends
  <2>10. Removals(log, m) = {}
    BY <2>4, <2>6, <2>7 DEF Removals, Grown
  <2>11. RemovalsOf(m)'
    BY <2>5, <2>9, <2>10 DEF RemovalsOf
  <2>. QED BY <1>2, <2>2, <2>4, <2>5, <2>8, <2>11
<1>9. ASSUME UNCHANGED acts,
             \A n \in Membership : ended'[n] = ended[n] \/ (ended[n].why # "removed" /\ ended'[n].why # "removed")
      PROVE  RemovedInv'
  <2>1. ASSUME NEW n \in Membership PROVE RemovalsOf(n)'
    <3>1. RemovalsOf(n)
      BY DEF RemovedInv
    <3>2. CASE ended'[n] = ended[n]
      BY <1>9, <3>1, <3>2 DEF RemovalsOf, Removals, Latest, LastOf, Before, Effective, Voided
    <3>3. CASE ended[n].why # "removed" /\ ended'[n].why # "removed"
      <4>1. Removals(acts, n) = {}
        BY <1>3, <3>3
      <4>2. Removals(acts', n) = {}
        BY <1>9, <4>1 DEF Removals, Effective, Voided
      <4>. QED BY <3>3, <4>2 DEF RemovalsOf
    <3>. QED BY <1>9, <3>2, <3>3
  <2>. QED BY <2>1 DEF RemovedInv
<1>10. CASE \/ Next /\ \E m \in Membership, kind \in Gains, day \in Day : Propose(m, kind, day)
            \/ Next /\ \E i \in DOMAIN acts : Deny(i) \/ Withdraw(i) \/ ProposalCommitted(i)
  <2>. DEFINE log == acts'
  <2>1. Quiet /\ UNCHANGED <<today, cache, ended, term>>
    BY <1>10, UnseenIsQuiet
  <2>2. ASSUME NEW n \in Membership PROVE RemovalsOf(n)'
    <3>1. /\ Effective(log, n) = Effective(acts, n)
          /\ LastOf(log, Effective(log, n)) = Latest(n)
          /\ \A j \in Effective(acts, n) : log[j].on = acts[j].on /\ log[j].kind = acts[j].kind
      BY <2>1 DEF Quiet
    <3>2. Removals(log, n) = Removals(acts, n) /\ \A j \in Removals(acts, n) : log[j].on = acts[j].on
      BY <3>1 DEF Removals
    <3>3. RemovalsOf(n)
      BY DEF RemovedInv
    <3>. QED BY <2>1, <3>1, <3>2, <3>3 DEF RemovalsOf, Latest
  <2>. QED BY <2>2 DEF RemovedInv
<1>11. ASSUME NEW m \in Membership, Archive(m) \/ Restore(m) PROVE RemovedInv'
  <2>1. UNCHANGED acts /\ \A n \in Membership \ {m} : ended'[n] = ended[n]
    BY <1>1, <1>11 DEF Archive, Restore, Ended
  <2>2. ended[m].why # "removed" /\ ended'[m].why # "removed"
    BY <1>1, <1>4, <1>11 DEF Archive, Restore, Ended
  <2>. QED BY <1>9, <2>1, <2>2
<1>12. CASE UNCHANGED <<acts, ended>>
  BY <1>9, <1>12
<1>13. CASE Reconcile \/ Tomorrow \/ UNCHANGED vars
  BY <1>12, <1>13 DEF Reconcile, Tomorrow, vars
<1>14. ASSUME NEW m \in Pastors, NEW day \in Day, StartTerm(m, day) PROVE RemovedInv'
  BY <1>12, <1>14 DEF StartTerm
<1>15. ASSUME NEW m \in Pastors, TermCommitted(m) \/ EndTerm(m) PROVE RemovedInv'
  BY <1>12, <1>15 DEF TermCommitted, EndTerm
<1>. QED BY <1>5, <1>6, <1>7, <1>8, <1>10, <1>11, <1>13, <1>14, <1>15 DEF Next

(* A membership is ended as a removal exactly while its latest action in   *)
(* effect is that removal, of the same day: nothing approved, enrolled or  *)
(* undone in between leaves the register and the membership apart          *)
(* (presby_record_participant_action, presby_void_participant_action).     *)
THEOREM RemovedAsRecordedHolds == Spec => []RemovedAsRecorded
<1>1. Init => RemovedInv
  BY DEF Init, RemovedInv, RemovalsOf, Removals, Effective, Live
<1>2. TypeInv /\ RemovedInv /\ [Next]_vars => RemovedInv'
  BY StepRemoved
<1>3. TypeInv /\ RemovedInv => RemovedAsRecorded
  BY RemovedOne
<1>. QED BY <1>1, <1>2, <1>3, TypeInvHolds, PTL DEF Spec

===============================================================================

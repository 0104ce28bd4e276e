------------------------ MODULE DomainLifecycleProofs ------------------------
(***************************************************************************)
(* DomainLifecycle implements DomainGuards: whatever the checks in flight  *)
(* have seen, and however late their answers are, no write of the service  *)
(* is one the database refuses.                                            *)
(*                                                                         *)
(* The invariant IInv says that every row carries the evidence the update  *)
(* trigger asks of its next edge (RowOK), that a row on its way out is no  *)
(* canonical host (LeftAlias), that the unique indexes and the cap hold,   *)
(* and that a claimed row has an identity.  An action is proved in two     *)
(* moves: each row it writes is Reached from the row that stood there by   *)
(* an update the trigger accepts, and a table of such rows, Good, passes   *)
(* the indexes (TableAccepted).                                            *)
(*                                                                         *)
(* OrphanHolds needs a second invariant, FlightInv: what a check in flight *)
(* goes by about the provider stays true while it is the only one.  It     *)
(* does because no other step brings a row back to verified or ends its    *)
(* release (Quiet).                                                        *)
(***************************************************************************)
EXTENDS DomainLifecycle, FiniteSetTheorems, TLAPS

(* The evidence on one row (as in DomainGuardsProofs), and a role on every *)
(* row that is not over.                                                   *)
RowOK(r) ==
  /\ r.reason <=> r.cause \in G!ForcedCause
  /\ r.reason => r.state \in {"release_pending", "released"}
  /\ r.state = "release_pending" /\ ~r.reason => r.grace = "over"
  /\ r.state \in {"lapsed", "parked"} => r.grace # "none"
  /\ r.grace # "none" => r.state \in {"lapsed", "parked", "release_pending", "released"}
  /\ r.cause # "none" <=> r.state \in G!Exit
  /\ r.state # "none" <=> r.role # "none"

Event == {"proof_ok", "reconnect", "expire", "attach_start", "attach_ok", "live_ok",
          "live_lost", "proof_lost", "grace_elapsed", "detach_ok", "remove", "force_release"}

(* The rows an event is for, and what it needs beside.                     *)
Fits(event, r, given, a) ==
  CASE event = "proof_ok"      -> r.state \in {"pending", "lapsed"}
    [] event = "reconnect"     -> r.state = "parked"
    [] event = "expire"        -> r.state = "pending" /\ r.expired
    [] event = "attach_start"  -> r.state = "verified"
    [] event = "attach_ok"     -> r.state = "attach_pending"
    [] event = "live_ok"       -> r.state = "attached"
    [] event = "live_lost"     -> r.state = "live"
    [] event = "proof_lost"    -> r.state \in {"verified", "attach_pending", "attached", "live"}
    [] event = "grace_elapsed" -> r.state \in {"lapsed", "parked"} /\ r.grace = "over"
    [] event = "detach_ok"     -> r.state = "release_pending"
    [] event = "remove"        -> /\ r.state \in {"pending", "verified", "attach_pending",
                                                  "attached", "live", "lapsed"}
                                  /\ given \in {"removed", "org_closed"}
                                  /\ given = "org_closed" => ~a
    [] event = "force_release" -> /\ r.state \in G!NonTerminal \ {"release_pending"}
                                  /\ given \in G!ForcedCause

LEMMA NextStateTyped ==
  ASSUME NEW r \in G!Row, NEW event \in Event, NEW given, NEW a, Fits(event, r, given, a)
  PROVE  /\ NextState(r.state, event) \in G!State
         /\ NextState(r.state, event) # r.state
         /\ r.state \in G!NonTerminal
         /\ G!LegalEdge("web", r.state, NextState(r.state, event))
         /\ NextState(r.state, event) \notin {"pending", "none"}
<1>. DEFINE to == NextState(r.state, event)
<1>1. r.state \in G!NonTerminal
  BY DEF Event, Fits, G!NonTerminal, G!Holding
<1>2. /\ event \notin {"remove", "force_release"} =>
           <<r.state, to>> \in
             {<<"pending", "verified">>, <<"lapsed", "verified">>, <<"parked", "verified">>,
              <<"pending", "expired">>, <<"verified", "attach_pending">>,
              <<"attach_pending", "attached">>, <<"attached", "live">>, <<"live", "attached">>,
              <<"verified", "lapsed">>, <<"attach_pending", "lapsed">>, <<"attached", "lapsed">>,
              <<"live", "lapsed">>, <<"lapsed", "release_pending">>,
              <<"parked", "release_pending">>, <<"release_pending", "released">>}
      /\ event = "remove" =>
           <<r.state, to>> \in
             {<<"pending", "released">>, <<"verified", "released">>, <<"attach_pending", "parked">>,
              <<"attached", "parked">>, <<"live", "parked">>, <<"lapsed", "parked">>}
      /\ event = "force_release" =>
           <<r.state, to>> \in
             {<<"pending", "released">>, <<"verified", "released">>,
              <<"attach_pending", "release_pending">>, <<"attached", "release_pending">>,
              <<"live", "release_pending">>, <<"lapsed", "release_pending">>,
              <<"parked", "release_pending">>}
  BY DEF Event, Fits, NextState, G!NonTerminal, G!Holding
<1>. HIDE DEF to
<1>3. G!LegalEdge("web", r.state, to)
  BY <1>2 DEF G!LegalEdge, G!BothEdges, G!WebEdges
<1>4. to \in G!State /\ to # r.state /\ to \notin {"pending", "none"}
  BY <1>2 DEF G!State, G!NonTerminal, G!Holding, G!Terminal
<1>. QED BY <1>1, <1>3, <1>4 DEF to

(* What the trigger leaves of a transition, column by column.              *)
LEMMA TransitionColumns ==
  ASSUME NEW r \in G!Row, NEW event \in Event, NEW given \in G!Cause, NEW a, Fits(event, r, given, a)
  PROVE  LET to == NextState(r.state, event)  t == Transition(r, event, given) IN
         /\ t \in G!Row
         /\ t.state = to /\ t.role = r.role /\ t.expired = FALSE
         /\ t.reason = (r.reason \/ event = "force_release")
         /\ t.cause = IF to = "verified" THEN "none" ELSE CauseFor(r, event, given)
         /\ t.grace = CASE to = "verified" -> "none"
                        [] to \in {"lapsed", "parked"} /\ r.state # "lapsed" -> "running"
                        [] OTHER -> r.grace
<1>. DEFINE to == NextState(r.state, event)
            c == CauseFor(r, event, given)
            why == r.reason \/ event = "force_release"
            new == [r EXCEPT !.state = to, !.cause = c, !.reason = why]
<1>1. to \in G!State /\ to # r.state
  BY NextStateTyped
<1>2. c \in G!Cause
  BY DEF CauseFor, G!Row, G!Cause, G!ForcedCause
<1>3. why \in BOOLEAN
  OBVIOUS
<1>4. Transition(r, event, given) = G!Stamped(r, new)
  BY DEF Transition
<1>. HIDE DEF to, c, why
<1>5. /\ new \in G!Row /\ new.state = to /\ new.role = r.role /\ new.reason = why
      /\ new.cause = c /\ new.grace = r.grace
  BY <1>1, <1>2, <1>3 DEF G!Row
<1>. HIDE DEF new
<1>6. /\ G!Stamped(r, new) \in G!Row
      /\ G!Stamped(r, new).state = new.state /\ G!Stamped(r, new).role = new.role
      /\ G!Stamped(r, new).expired = FALSE /\ G!Stamped(r, new).reason = new.reason
      /\ G!Stamped(r, new).cause = IF new.state = "verified" THEN "none" ELSE new.cause
      /\ G!Stamped(r, new).grace = CASE new.state = "verified" -> "none"
                        [] new.state \in {"lapsed", "parked"} /\ r.state # "lapsed" -> "running"
                        [] OTHER -> new.grace
  BY <1>1, <1>5 DEF G!Stamped, G!Row, G!Cause, G!Grace
<1>. QED BY <1>4, <1>5, <1>6 DEF to, c, why

(* Every transition of the service is one the update trigger accepts, and  *)
(* keeps the evidence.                                                     *)
LEMMA TransitionAccepted ==
  ASSUME NEW r \in G!Row, RowOK(r), NEW event \in Event, NEW given \in G!Cause,
         NEW a \in BOOLEAN, Fits(event, r, given, a)
  PROVE  LET t == Transition(r, event, given) IN
         G!UpdateAccepted("web", r, t, a) /\ RowOK(t)
<1>. DEFINE to == NextState(r.state, event)
            t == Transition(r, event, given)
<1>1. /\ t \in G!Row
      /\ t.state = to /\ t.role = r.role /\ t.expired = FALSE
      /\ t.reason = (r.reason \/ event = "force_release")
      /\ t.cause = IF to = "verified" THEN "none" ELSE CauseFor(r, event, given)
      /\ t.grace = CASE to = "verified" -> "none"
                     [] to \in {"lapsed", "parked"} /\ r.state # "lapsed" -> "running"
                     [] OTHER -> r.grace
  BY TransitionColumns
<1>2. /\ to \in G!State /\ to # r.state /\ r.state \in G!NonTerminal
      /\ G!LegalEdge("web", r.state, to) /\ to \notin {"pending", "none"}
  BY NextStateTyped
<1>3. r.state # "none" /\ r.role # "none"
  BY <1>2 DEF RowOK, G!NonTerminal, G!Holding
<1>4. /\ t.reason => to \in {"release_pending", "released"}
      /\ t.reason # r.reason => /\ to \in {"release_pending", "released"}
                                /\ r.state # "release_pending"
      /\ t.cause \in G!ForcedCause <=> t.reason
      /\ to \in G!Exit <=> t.cause # "none"
      /\ to = "expired" => r.expired
      /\ to \in G!Exit => G!ExitEvidence(r, t, a)
      /\ to \notin G!Exit /\ to # "verified" => t.cause = r.cause
      /\ to \in {"lapsed", "parked"} => t.grace # "none"
      /\ t.grace # "none" => to \in {"lapsed", "parked", "release_pending", "released"}
      /\ to = "release_pending" /\ ~t.reason => t.grace = "over"
  <2>1. CASE event \notin {"remove", "force_release", "grace_elapsed", "detach_ok"}
    <3>1. /\ to \notin G!Exit /\ to # "released"
          /\ to = "expired" => r.expired
          /\ to # "verified" => r.state \notin G!Exit
          /\ r.state \notin {"release_pending", "released"}
          /\ to # "verified" => r.state # "lapsed"
      BY <2>1 DEF Event, Fits, NextState, G!Exit, G!NonTerminal, G!Holding
    <3>. HIDE DEF to, t
    <3>2. t.reason = r.reason /\ r.reason = FALSE
      BY <1>1, <2>1, <3>1 DEF RowOK, G!Row
    <3>3. CauseFor(r, event, given) = r.cause
      BY <2>1 DEF CauseFor
    <3>4. t.cause = "none"
      BY <1>1, <3>1, <3>3 DEF RowOK
    <3>. QED BY <1>1, <1>2, <3>1, <3>2, <3>3, <3>4 DEF RowOK, G!ForcedCause, G!Exit
  <2>2. CASE event = "detach_ok"
    <3>1. r.state = "release_pending" /\ to = "released"
      BY <2>2 DEF Fits, NextState
    <3>2. CauseFor(r, event, given) = r.cause
      BY <2>2 DEF CauseFor
    <3>. HIDE DEF to, t
    <3>3. t.reason = r.reason /\ t.cause = r.cause /\ t.grace = r.grace
      BY <1>1, <2>2, <3>1, <3>2 DEF G!Row
    <3>. QED BY <1>1, <3>1, <3>3 DEF RowOK, G!Exit, G!ExitEvidence
  <2>3. CASE event = "grace_elapsed"
    <3>1. r.state \in {"lapsed", "parked"} /\ r.grace = "over" /\ to = "release_pending"
      BY <2>3 DEF Fits, NextState
    <3>2. CauseFor(r, event, given) = IF r.state = "lapsed" THEN "lapsed_grace" ELSE r.cause
      BY <2>3 DEF CauseFor
    <3>. HIDE DEF to, t
    <3>3. t.reason = r.reason /\ r.reason = FALSE /\ t.grace = r.grace
      BY <1>1, <2>3, <3>1 DEF RowOK, G!Row
    <3>4. t.cause = IF r.state = "lapsed" THEN "lapsed_grace" ELSE r.cause
      BY <1>1, <3>1, <3>2
    <3>5. t.cause \notin G!ForcedCause \cup {"none"}
      BY <3>1, <3>3, <3>4 DEF RowOK, G!ForcedCause, G!Exit
    <3>. QED BY <1>1, <3>1, <3>3, <3>4, <3>5 DEF G!Exit, G!ExitEvidence
  <2>4. CASE event = "remove"
    <3>1. /\ to \in {"parked", "released"}
          /\ given \in {"removed", "org_closed"} /\ (given = "org_closed" => ~a)
          /\ r.state \notin {"release_pending", "released", "parked"}
          /\ to = "released" => r.state # "lapsed"
      BY <2>4 DEF Fits, NextState
    <3>2. CauseFor(r, event, given) = given
      BY <2>4 DEF CauseFor
    <3>. HIDE DEF to, t
    <3>3. t.reason = r.reason /\ r.reason = FALSE /\ t.cause = given
      BY <1>1, <2>4, <3>1, <3>2 DEF RowOK, G!Row
    <3>. QED BY <1>1, <3>1, <3>3 DEF RowOK, G!Exit, G!ExitEvidence, G!ForcedCause
  <2>5. CASE event = "force_release"
    <3>1. /\ to \in {"release_pending", "released"}
          /\ given \in G!ForcedCause /\ r.state # "release_pending"
      BY <2>5 DEF Fits, NextState
    <3>2. CauseFor(r, event, given) = given
      BY <2>5 DEF CauseFor
    <3>. HIDE DEF to, t
    <3>3. t.reason = TRUE /\ t.cause = given
      BY <1>1, <2>5, <3>1, <3>2 DEF G!Row
    <3>. QED BY <1>1, <3>1, <3>3 DEF RowOK, G!Exit, G!ExitEvidence, G!ForcedCause
  <2>. QED BY <2>1, <2>2, <2>3, <2>4, <2>5
<1>. HIDE DEF to, t
<1>5. RowOK(t)
  BY <1>1, <1>3, <1>4, <1>2 DEF RowOK
<1>6. G!ReasonAccepted(r, t)
  BY <1>1, <1>2, <1>4 DEF G!ReasonAccepted
<1>7. G!CauseAccepted(r, t, a)
  BY <1>1, <1>2, <1>4 DEF G!CauseAccepted
<1>8. LET n == G!Stamped(r, [t EXCEPT !.grace = r.grace, !.expired = r.expired]) IN
        t.grace = n.grace /\ t.expired = n.expired
  BY <1>1, <1>2 DEF G!Stamped, G!Row
<1>9. G!RoleAllowed("web", t.role)
  BY <1>1, <1>3 DEF G!RoleAllowed
<1>. QED BY <1>1, <1>2, <1>4, <1>5, <1>6, <1>7, <1>8, <1>9 DEF t, G!UpdateAccepted

-------------------------------------------------------------------------------
(* A row the service may leave where it found the row r: the trigger       *)
(* accepts it, and a domain on its way out is an alias (LeftAlias).        *)
LeftAlias(r) ==
  r.state \in {"parked", "release_pending"} /\ r.cause # "lapsed_grace" => r.role = "alias"

Fine(r) == r \in G!Row /\ RowOK(r) /\ LeftAlias(r)

Reached(r, t, a) == Fine(t) /\ (t = r \/ G!UpdateAccepted("web", r, t, a))

LEMMA RoleAccepted ==
  ASSUME NEW r \in G!Row, NEW t \in G!Row, NEW a \in BOOLEAN, NEW role \in {"canonical", "alias"},
         RowOK(r), RowOK(t), t.state # "none",
         (t = r /\ r.state \in G!NonTerminal) \/ G!UpdateAccepted("web", r, t, a),
         NEW n, n = [t EXCEPT !.role = role]
  PROVE  /\ n \in G!Row /\ RowOK(n) /\ G!UpdateAccepted("web", r, n, a)
         /\ n.state = t.state /\ n.role = role
<1>1. /\ n \in G!Row /\ n.role = role /\ n.state = t.state /\ n.cause = t.cause
      /\ n.grace = t.grace /\ n.expired = t.expired /\ n.reason = t.reason
  BY DEF G!Row
<1>2. r.state \in G!NonTerminal
  BY DEF G!UpdateAccepted
<1>3. /\ t.state # r.state => G!LegalEdge("web", r.state, t.state)
      /\ t.state = "expired" => r.expired
      /\ G!ReasonAccepted(r, t) /\ G!CauseAccepted(r, t, a)
  <2>1. CASE t = r
    <3>1. "expired" \notin G!NonTerminal
      BY DEF G!NonTerminal, G!Holding
    <3>. QED BY <1>2, <2>1, <3>1 DEF G!ReasonAccepted, G!CauseAccepted
  <2>2. CASE G!UpdateAccepted("web", r, t, a)
    BY <2>2 DEF G!UpdateAccepted
  <2>. QED BY <2>1, <2>2
<1>4. LET m == G!Stamped(r, [t EXCEPT !.grace = r.grace, !.expired = r.expired]) IN
        t.grace = m.grace /\ t.expired = m.expired
  <2>1. CASE t = r
    BY <2>1 DEF G!Stamped, G!Row
  <2>2. CASE G!UpdateAccepted("web", r, t, a)
    BY <2>2 DEF G!UpdateAccepted
  <2>. QED BY <2>1, <2>2
<1>5. LET m == G!Stamped(r, [n EXCEPT !.grace = r.grace, !.expired = r.expired]) IN
        n.grace = m.grace /\ n.expired = m.expired
  BY <1>4 DEF G!Stamped, G!Row
<1>6. RowOK(n)
  BY <1>1 DEF RowOK
<1>7. G!RoleAllowed("web", n.role)
  BY <1>1 DEF G!RoleAllowed
<1>8. G!ReasonAccepted(r, n) /\ G!CauseAccepted(r, n, a)
  BY <1>1, <1>3 DEF G!ReasonAccepted, G!CauseAccepted, G!ExitEvidence
<1>9. G!UpdateAccepted("web", r, n, a)
  BY <1>1, <1>2, <1>3, <1>5, <1>7, <1>8 DEF G!UpdateAccepted
<1>. QED BY <1>1, <1>6, <1>9

LEMMA EventReached ==
  ASSUME NEW r \in G!Row, RowOK(r), LeftAlias(r), NEW a \in BOOLEAN, NEW event \in Event \ {"remove", "force_release"},
         Fits(event, r, "none", a)
  PROVE  LET t == Transition(r, event, "none") IN
         Reached(r, t, a) /\ t.role = r.role /\ t.state = NextState(r.state, event)
<1>1. "none" \in G!Cause
  BY DEF G!Cause
<1>2. event \in Event
  OBVIOUS
<1>. DEFINE to == NextState(r.state, event)
            t == Transition(r, event, "none")
<1>3. /\ t \in G!Row
      /\ t.state = to /\ t.role = r.role /\ t.expired = FALSE
      /\ t.reason = (r.reason \/ event = "force_release")
      /\ t.cause = IF to = "verified" THEN "none" ELSE CauseFor(r, event, "none")
      /\ t.grace = CASE to = "verified" -> "none"
                     [] to \in {"lapsed", "parked"} /\ r.state # "lapsed" -> "running"
                     [] OTHER -> r.grace
  BY <1>1, <1>2, TransitionColumns
<1>4. G!UpdateAccepted("web", r, t, a) /\ RowOK(t)
  BY <1>1, <1>2, TransitionAccepted
<1>5. /\ to # "parked"
      /\ to = "release_pending" => event = "grace_elapsed" /\ r.state \in {"lapsed", "parked"}
  BY DEF Event, Fits, NextState
<1>6. event = "grace_elapsed" =>
        CauseFor(r, event, "none") = IF r.state = "lapsed" THEN "lapsed_grace" ELSE r.cause
  BY DEF CauseFor
<1>. HIDE DEF to, t
<1>7. LeftAlias(t)
  BY <1>3, <1>5, <1>6 DEF LeftAlias
<1>. QED BY <1>3, <1>4, <1>7 DEF Reached, Fine, to, t

LEMMA ExitReached ==
  ASSUME NEW r \in G!Row, RowOK(r), NEW a \in BOOLEAN, NEW event \in {"remove", "force_release"},
         NEW given \in G!Cause, Fits(event, r, given, a)
  PROVE  LET t == Demoted(Transition(r, event, given)) IN
         Reached(r, t, a) /\ t.role = "alias" /\ t.state = NextState(r.state, event)
<1>1. event \in Event
  BY DEF Event
<1>. DEFINE to == NextState(r.state, event)
            u == Transition(r, event, given)
            t == Demoted(u)
<1>2. /\ u \in G!Row
      /\ u.state = to /\ u.role = r.role /\ u.expired = FALSE
      /\ u.reason = (r.reason \/ event = "force_release")
      /\ u.cause = IF to = "verified" THEN "none" ELSE CauseFor(r, event, given)
      /\ u.grace = CASE to = "verified" -> "none"
                     [] to \in {"lapsed", "parked"} /\ r.state # "lapsed" -> "running"
                     [] OTHER -> r.grace
  BY <1>1, TransitionColumns
<1>3. G!UpdateAccepted("web", r, u, a) /\ RowOK(u)
  BY <1>1, TransitionAccepted
<1>4. to # "none"
  BY <1>1, NextStateTyped
<1>. HIDE DEF to, u
<1>5. t = [u EXCEPT !.role = "alias"]
  BY DEF Demoted
<1>. HIDE DEF t
<1>6. /\ t \in G!Row /\ RowOK(t) /\ G!UpdateAccepted("web", r, t, a)
      /\ t.state = u.state /\ t.role = "alias"
  <2>1. u \in G!Row /\ u.state # "none" /\ "alias" \in {"canonical", "alias"}
    BY <1>2, <1>4
  <2>. QED BY <2>1, <1>3, <1>5, RoleAccepted
<1>. QED BY <1>2, <1>6 DEF Reached, Fine, LeftAlias, to, u, t

-------------------------------------------------------------------------------
(* The table *)

Rows == \A s \in G!Key : RowOK(dom[s]) /\ LeftAlias(dom[s])
OneEach == \A o \in Org : \A g, h \in Canonicals(dom, o) : g = h

LEMMA Keys ==
  /\ \A s \in G!Key : /\ s = Slot(s[1], s[2]) /\ s[1] \in Org /\ s[2] \in Host
                       /\ G!OrgOf(s) = s[1] /\ G!HostOf(s) = s[2] /\ G!PurposeOf(s) = "web"
  /\ \A o \in Org, h \in Host : /\ Slot(o, h) \in G!Key /\ Slot(o, h)[1] = o /\ Slot(o, h)[2] = h
BY DEF G!Key, Slot, G!OrgOf, G!HostOf, G!PurposeOf

LEMMA CanonicalsAre ==
  ASSUME NEW d, NEW o \in Org, NEW h \in Host
  PROVE  h \in Canonicals(d, o) <=> /\ d[Slot(o, h)].state \in G!NonTerminal
                                    /\ d[Slot(o, h)].role = "canonical"
BY DEF Canonicals, Open

LEMMA OneCanonicalIsOneEach == OneEach <=> G!OneCanonical
<1>1. ASSUME G!OneCanonical, NEW o \in Org, NEW g \in Canonicals(dom, o), NEW h \in Canonicals(dom, o)
      PROVE  g = h
  <2>1. g \in Host /\ h \in Host
    BY DEF Canonicals, Open
  <2>2. /\ Slot(o, g) \in G!Key /\ Slot(o, h) \in G!Key /\ G!OrgOf(Slot(o, g)) = G!OrgOf(Slot(o, h))
        /\ Slot(o, g)[2] = g /\ Slot(o, h)[2] = h
    BY <2>1, Keys
  <2>3. /\ dom[Slot(o, g)].state \in G!NonTerminal /\ dom[Slot(o, g)].role = "canonical"
        /\ dom[Slot(o, h)].state \in G!NonTerminal /\ dom[Slot(o, h)].role = "canonical"
    BY <2>1, CanonicalsAre
  <2>4. Slot(o, g) = Slot(o, h)
    BY <1>1, <2>2, <2>3 DEF G!OneCanonical
  <2>. QED BY <2>2, <2>4
<1>. SUFFICES ASSUME OneEach, NEW k \in G!Key, NEW l \in G!Key, G!OrgOf(k) = G!OrgOf(l),
                     dom[k].role = "canonical", dom[l].role = "canonical",
                     dom[k].state \in G!NonTerminal, dom[l].state \in G!NonTerminal
              PROVE  k = l
  BY <1>1 DEF G!OneCanonical, OneEach
<1>2. /\ k = Slot(k[1], k[2]) /\ l = Slot(k[1], l[2]) /\ k[1] \in Org
      /\ k[2] \in Host /\ l[2] \in Host
  BY Keys
<1>3. k[2] \in Canonicals(dom, k[1]) /\ l[2] \in Canonicals(dom, k[1])
  BY <1>2, CanonicalsAre
<1>. QED BY <1>2, <1>3 DEF OneEach

LEMMA SameCardinality == \A S : G!Cardinality(S) = Cardinality(S)
BY DEF G!Cardinality, Cardinality

(* What an organization has claimed, as hostnames.                         *)
LEMMA ClaimedAreOpen ==
  \A o \in Org : /\ IsFiniteSet(Open(dom, o))
                 /\ Cardinality(G!Claimed(o, "web")) = Cardinality(Open(dom, o))
                 /\ Cardinality(Open(dom, o)) \in Nat
<1>. SUFFICES ASSUME NEW o \in Org
              PROVE  /\ IsFiniteSet(Open(dom, o))
                     /\ Cardinality(G!Claimed(o, "web")) = Cardinality(Open(dom, o))
                     /\ Cardinality(Open(dom, o)) \in Nat
  OBVIOUS
<1>. DEFINE C == G!Claimed(o, "web")
            f == [s \in C |-> s[2]]
<1>1. IsFiniteSet(Open(dom, o))
  BY FS_Subset, BoundAssumption DEF Open
<1>2. /\ \A s \in C : s = Slot(o, s[2]) /\ s[2] \in Open(dom, o)
      /\ \A h \in Open(dom, o) : Slot(o, h) \in C /\ Slot(o, h)[2] = h
  BY Keys DEF G!Claimed, Open
<1>. HIDE DEF C
<1>3. f \in Bijection(C, Open(dom, o))
  BY <1>2 DEF Bijection, Injection, Surjection, IsInjective
<1>4. f \in Injection(C, Open(dom, o)) /\ f \in Surjection(C, Open(dom, o))
  BY <1>3 DEF Bijection
<1>5. IsFiniteSet(C) /\ Cardinality(C) = Cardinality(Open(dom, o))
  <2>. HIDE DEF f
  <2>. QED BY <1>1, <1>4, FS_Injection
<1>. QED BY <1>1, <1>5, FS_CardinalityType DEF C

(* The indexes in this module's terms.                                     *)
OneHolderEach ==
  \A o, p \in Org, h \in Host :
    dom[Slot(o, h)].state \in G!Holding /\ dom[Slot(p, h)].state \in G!Holding => o = p
Capped == \A o \in Org : Cardinality(Open(dom, o)) <= WebCap

LEMMA IndexesAre == G!Indexes <=> OneHolderEach /\ OneEach /\ Capped
<1>1. G!OneHolder <=> OneHolderEach
  <2>1. ASSUME G!OneHolder PROVE OneHolderEach
    <3>. SUFFICES ASSUME NEW o \in Org, NEW p \in Org, NEW h \in Host,
                         dom[Slot(o, h)].state \in G!Holding, dom[Slot(p, h)].state \in G!Holding
                  PROVE  o = p
      BY DEF OneHolderEach
    <3>1. /\ Slot(o, h) \in G!Key /\ Slot(p, h) \in G!Key
          /\ G!HostOf(Slot(o, h)) = G!HostOf(Slot(p, h))
          /\ G!PurposeOf(Slot(o, h)) = G!PurposeOf(Slot(p, h))
          /\ Slot(o, h)[1] = o /\ Slot(p, h)[1] = p
      BY Keys
    <3>. QED BY <2>1, <3>1 DEF G!OneHolder
  <2>2. ASSUME OneHolderEach, NEW k \in G!Key, NEW l \in G!Key, G!HostOf(k) = G!HostOf(l),
               dom[k].state \in G!Holding, dom[l].state \in G!Holding
        PROVE  k = l
    <3>1. /\ k = Slot(k[1], k[2]) /\ l = Slot(l[1], k[2]) /\ k[1] \in Org /\ l[1] \in Org
          /\ k[2] \in Host
      BY <2>2, Keys
    <3>. QED BY <2>2, <3>1 DEF OneHolderEach
  <2>. QED BY <2>1, <2>2 DEF G!OneHolder
<1>2. G!WithinCaps <=> Capped
  BY ClaimedAreOpen, SameCardinality DEF G!WithinCaps, Capped
<1>. QED BY <1>1, <1>2, OneCanonicalIsOneEach DEF G!Indexes

(* The table w is one organization o may leave: each of its rows reached   *)
(* by an accepted update, no host taken from another, and nobody else's    *)
(* rows touched.                                                           *)
Good(o, w) ==
  /\ w \in [G!Key -> G!Row]
  /\ \A p \in Org \ {o}, h \in Host : w[Slot(p, h)] = dom[Slot(p, h)]
  /\ \A h \in Host : Reached(dom[Slot(o, h)], w[Slot(o, h)], active[o])
  /\ \A h \in Host : /\ w[Slot(o, h)].state \in G!Holding
                     /\ dom[Slot(o, h)].state \notin G!Holding
                     => ~HeldElsewhere(o, h)

(* A transaction that leaves such a table, and at most one canonical host, *)
(* is one the database accepts, and it keeps the rows fine.                *)
LEMMA TableAccepted ==
  ASSUME G!TypeOK, G!Indexes, Rows, NEW o \in Org, active' = active, Good(o, dom'),
         \A g, h \in Canonicals(dom', o) : g = h
  PROVE  /\ G!Transaction(o) /\ Rows'
         /\ \A s \in G!Key : dom'[s].state \in G!NonTerminal => dom[s].state \in G!NonTerminal
<1>. USE DEF Good
<1>1. OneHolderEach /\ OneEach /\ Capped
  BY IndexesAre
<1>2. ASSUME NEW h \in Host
      PROVE  dom'[Slot(o, h)].state \in G!NonTerminal => dom[Slot(o, h)].state \in G!NonTerminal
  BY DEF Reached, G!UpdateAccepted
<1>3. ASSUME NEW p \in Org, NEW h \in Host, p # o PROVE dom'[Slot(p, h)] = dom[Slot(p, h)]
  BY <1>3
<1>4. OneHolderEach'
  <2>. SUFFICES ASSUME NEW q \in Org, NEW p \in Org, NEW h \in Host,
                       dom'[Slot(q, h)].state \in G!Holding, dom'[Slot(p, h)].state \in G!Holding,
                       q # p
                PROVE  FALSE
    BY DEF OneHolderEach
  <2>1. ASSUME NEW r \in Org, r # o, dom'[Slot(r, h)].state \in G!Holding,
               dom'[Slot(o, h)].state \in G!Holding
        PROVE  FALSE
    <3>1. dom[Slot(r, h)].state \in G!Holding
      BY <1>3, <2>1
    <3>2. HeldElsewhere(o, h)
      BY <2>1, <3>1 DEF HeldElsewhere
    <3>3. dom[Slot(o, h)].state \in G!Holding
      BY <2>1, <3>2
    <3>. QED BY <1>1, <2>1, <3>1, <3>3 DEF OneHolderEach
  <2>2. CASE q # o /\ p # o
    BY <1>1, <1>3, <2>2 DEF OneHolderEach
  <2>. QED BY <2>1, <2>2
<1>5. OneEach'
  <2>1. ASSUME NEW p \in Org, p # o PROVE Canonicals(dom', p) = Canonicals(dom, p)
    BY <1>3, <2>1 DEF Canonicals, Open
  <2>. QED BY <1>1, <2>1 DEF OneEach
<1>6. Capped'
  <2>1. ASSUME NEW p \in Org PROVE Open(dom', p) \subseteq Open(dom, p)
    BY <1>2, <1>3 DEF Open
  <2>2. ASSUME NEW p \in Org PROVE Cardinality(Open(dom', p)) <= WebCap
    <3>1. /\ IsFiniteSet(Open(dom, p)) /\ Cardinality(Open(dom, p)) \in Nat
          /\ Cardinality(Open(dom, p)) <= WebCap
      BY <1>1, ClaimedAreOpen DEF Capped
    <3>2. /\ IsFiniteSet(Open(dom', p)) /\ Cardinality(Open(dom', p)) <= Cardinality(Open(dom, p))
      BY <2>1, <3>1, FS_Subset
    <3>3. Cardinality(Open(dom', p)) \in Nat
      BY <3>2, FS_CardinalityType
    <3>. QED BY <3>1, <3>2, <3>3, BoundAssumption
  <2>. QED BY <2>2 DEF Capped
<1>7. G!Indexes'
  <2>1. (G!Indexes <=> OneHolderEach /\ OneEach /\ Capped)'
    BY IndexesAre, PTL
  <2>. QED BY <1>4, <1>5, <1>6, <2>1
<1>8. ASSUME NEW s \in G!Key
      PROVE  /\ \/ dom'[s] = dom[s]
                \/ G!OrgOf(s) = o /\ G!UpdateAccepted(G!PurposeOf(s), dom[s], dom'[s], active[o])
             /\ RowOK(dom'[s]) /\ LeftAlias(dom'[s])
             /\ dom'[s].state \in G!NonTerminal => dom[s].state \in G!NonTerminal
  <2>1. /\ s = Slot(s[1], s[2]) /\ s[1] \in Org /\ s[2] \in Host
        /\ G!OrgOf(s) = s[1] /\ G!PurposeOf(s) = "web"
    BY Keys
  <2>2. CASE s[1] = o
    BY <1>2, <2>1, <2>2 DEF Reached, Fine
  <2>3. CASE s[1] # o
    BY <1>3, <2>1, <2>3 DEF Rows
  <2>. QED BY <2>2, <2>3
<1>9. G!Transaction(o)
  BY <1>7, <1>8 DEF G!Transaction
<1>. QED BY <1>8, <1>9 DEF Rows

-------------------------------------------------------------------------------
(* What the actions write *)

IdsOK == \A s \in G!Key : dom[s].state \in G!NonTerminal => id[s] \in 1 .. MaxId

IInv == TypeOK /\ Rows /\ G!Indexes /\ IdsOK

LEMMA RowAt ==
  ASSUME G!TypeOK, Rows, NEW o \in Org, NEW h \in Host
  PROVE  /\ dom[Slot(o, h)] \in G!Row /\ RowOK(dom[Slot(o, h)]) /\ LeftAlias(dom[Slot(o, h)])
         /\ Reached(dom[Slot(o, h)], dom[Slot(o, h)], active[o])
         /\ active[o] \in BOOLEAN
<1>1. Slot(o, h) \in G!Key
  BY Keys
<1>. QED BY <1>1 DEF G!TypeOK, Rows, Reached, Fine

(* applyRow moves a row along one edge, or leaves it.                      *)
Moved(o, h, r, t, a) ==
  \/ t = r
  \/ \E event \in Event \ {"remove", "force_release"} :
       /\ Fits(event, r, "none", a) /\ t = Transition(r, event, "none")
       /\ r.state = "pending" /\ event # "expire" => ~HeldElsewhere(o, h)

LEMMA ApplyRowMoves ==
  ASSUME NEW o \in Org, NEW h \in Host, NEW r \in G!Row, r.state \in G!NonTerminal, NEW proof, NEW e,
         NEW a \in BOOLEAN, NEW t \in ApplyRow(o, h, r, proof, e)
  PROVE  Moved(o, h, r, t, a)
<1>1. ASSUME NEW event \in Event \ {"remove", "force_release"}, t = Transition(r, event, "none"),
             Fits(event, r, "none", a), r.state = "pending" /\ event # "expire" => ~HeldElsewhere(o, h)
      PROVE  Moved(o, h, r, t, a)
  BY <1>1 DEF Moved
<1>2. t = r => Moved(o, h, r, t, a)
  BY DEF Moved
<1>3. {"proof_ok", "reconnect", "expire", "attach_start", "attach_ok", "live_ok", "live_lost",
       "proof_lost", "grace_elapsed", "detach_ok"} \subseteq Event \ {"remove", "force_release"}
  BY DEF Event
<1>4. CASE r.state = "pending"
  <2>1. \/ t = Transition(r, "proof_ok", "none") /\ ~HeldElsewhere(o, h)
        \/ t = Transition(r, "expire", "none") /\ r.expired
        \/ t = r
    BY <1>4 DEF ApplyRow
  <2>. QED BY <1>1, <1>2, <1>3, <1>4, <2>1 DEF Fits
<1>5. CASE r.state \in {"verified", "attach_pending", "attached", "live"}
  <2>1. \/ t = Transition(r, "proof_lost", "none") \/ t = r
        \/ r.state = "verified" /\ t = Transition(r, "attach_start", "none")
        \/ r.state = "attach_pending" /\ t = Transition(r, "attach_ok", "none")
        \/ r.state = "attached" /\ t = Transition(r, "live_ok", "none")
        \/ r.state = "live" /\ t = Transition(r, "live_lost", "none")
    <3>1. CASE r.state = "verified"
      BY <3>1 DEF ApplyRow, ApplyProved, KeepOrLose
    <3>2. CASE r.state = "attach_pending"
      BY <3>2 DEF ApplyRow, ApplyProved, KeepOrLose
    <3>3. CASE r.state = "attached"
      BY <3>3 DEF ApplyRow, ApplyProved, KeepOrLose
    <3>4. CASE r.state = "live"
      BY <3>4 DEF ApplyRow, ApplyProved, KeepOrLose
    <3>. QED BY <1>5, <3>1, <3>2, <3>3, <3>4
  <2>. QED BY <1>1, <1>2, <1>3, <1>5, <2>1 DEF Fits
<1>6. CASE r.state \in {"lapsed", "parked"}
  <2>1. \/ r.state = "lapsed" /\ t = Transition(r, "proof_ok", "none")
        \/ r.grace = "over" /\ t = Transition(r, "grace_elapsed", "none")
        \/ t = r
    BY <1>6 DEF ApplyRow
  <2>. QED BY <1>1, <1>2, <1>3, <1>6, <2>1 DEF Fits
<1>7. CASE r.state = "release_pending"
  <2>1. t = Transition(r, "detach_ok", "none") \/ t = r
    BY <1>7 DEF ApplyRow
  <2>. QED BY <1>1, <1>2, <1>3, <1>7, <2>1 DEF Fits
<1>. QED BY <1>4, <1>5, <1>6, <1>7 DEF G!NonTerminal, G!Holding

LEMMA ApplyRowReached ==
  ASSUME G!TypeOK, Rows, NEW o \in Org, NEW h \in Open(dom, o), NEW proof, NEW e,
         NEW t \in ApplyRow(o, h, dom[Slot(o, h)], proof, e)
  PROVE  LET r == dom[Slot(o, h)] IN
         /\ Reached(r, t, active[o])
         /\ t.state \in G!Holding /\ r.state \notin G!Holding => ~HeldElsewhere(o, h)
         /\ t.role \in {r.role, "alias"}
<1>. DEFINE r == dom[Slot(o, h)]  a == active[o]
<1>1. h \in Host /\ r.state \in G!NonTerminal
  BY DEF Open
<1>2. r \in G!Row /\ RowOK(r) /\ LeftAlias(r) /\ Reached(r, r, a) /\ a \in BOOLEAN
  BY <1>1, RowAt
<1>0. t \in ApplyRow(o, h, r, proof, e)
  OBVIOUS
<1>. HIDE DEF r, a
<1>3. Moved(o, h, r, t, a)
  BY <1>0, <1>1, <1>2, ApplyRowMoves
<1>4. r.state \notin G!Holding => r.state = "pending"
  BY <1>1 DEF G!NonTerminal
<1>5. ASSUME NEW event \in Event \ {"remove", "force_release"},
             Fits(event, r, "none", a), t = Transition(r, event, "none"),
             r.state = "pending" /\ event # "expire" => ~HeldElsewhere(o, h)
      PROVE  /\ Reached(r, t, a)
             /\ t.state \in G!Holding /\ r.state \notin G!Holding => ~HeldElsewhere(o, h)
             /\ t.role \in {r.role, "alias"}
  <2>1. Reached(r, t, a) /\ t.role = r.role /\ t.state = NextState(r.state, event)
    BY <1>2, <1>5, EventReached
  <2>2. event = "expire" => t.state \notin G!Holding
    BY <2>1 DEF NextState, G!Holding
  <2>. QED BY <1>4, <1>5, <2>1, <2>2
<1>6. t = r => /\ Reached(r, t, a)
               /\ t.state \in G!Holding /\ r.state \notin G!Holding => ~HeldElsewhere(o, h)
               /\ t.role \in {r.role, "alias"}
  BY <1>2
<1>. QED BY <1>3, <1>5, <1>6 DEF r, a, Moved

LEMMA RemovedReached ==
  ASSUME NEW r \in G!Row, RowOK(r), NEW a \in BOOLEAN, NEW cause \in {"removed", "org_closed"},
         cause = "org_closed" => ~a,
         r.state \in G!NonTerminal \ {"parked", "release_pending"}
  PROVE  /\ Reached(r, Removed(r, cause), a) /\ Removed(r, cause).role = "alias"
         /\ Removed(r, cause).state \in {"released", "parked"}
         /\ Removed(r, cause).state \in G!Holding => r.state \in G!Holding
<1>1. cause \in G!Cause /\ "remove" \in {"remove", "force_release"}
  BY DEF G!Cause
<1>2. Fits("remove", r, cause, a)
  BY DEF Fits, G!NonTerminal, G!Holding
<1>3. LET t == Demoted(Transition(r, "remove", cause)) IN
      Reached(r, t, a) /\ t.role = "alias" /\ t.state = NextState(r.state, "remove")
  BY <1>1, <1>2, ExitReached
<1>4. /\ NextState(r.state, "remove") \in {"released", "parked"}
      /\ NextState(r.state, "remove") \in G!Holding => r.state \in G!Holding
  BY DEF NextState, G!Holding, G!NonTerminal
<1>. QED BY <1>3, <1>4 DEF Removed

LEMMA GoodWritten ==
  ASSUME G!TypeOK, Rows, NEW o \in Org, NEW hosts \in SUBSET Host, NEW f,
         DOMAIN f = {Slot(o, h) : h \in hosts},
         \A h \in hosts : /\ Reached(dom[Slot(o, h)], f[Slot(o, h)], active[o])
                          /\ f[Slot(o, h)].state \in G!Holding /\ dom[Slot(o, h)].state \notin G!Holding
                             => ~HeldElsewhere(o, h)
  PROVE  /\ Good(o, Written(dom, f))
         /\ \A h \in hosts : Written(dom, f)[Slot(o, h)] = f[Slot(o, h)]
         /\ \A h \in Host \ hosts : Written(dom, f)[Slot(o, h)] = dom[Slot(o, h)]
<1>. DEFINE w == Written(dom, f)
<1>1. DOMAIN dom = G!Key
  BY DEF G!TypeOK
<1>2. /\ DOMAIN w = G!Key /\ w = [s \in G!Key |-> w[s]]
      /\ \A s \in G!Key : w[s] = IF s \in DOMAIN f THEN f[s] ELSE dom[s]
  BY <1>1 DEF Written
<1>3. ASSUME NEW p \in Org, NEW h \in Host
      PROVE  Slot(p, h) \in DOMAIN f <=> p = o /\ h \in hosts
  BY Keys
<1>. HIDE DEF w
<1>4. /\ \A h \in hosts : w[Slot(o, h)] = f[Slot(o, h)]
      /\ \A h \in Host \ hosts : w[Slot(o, h)] = dom[Slot(o, h)]
      /\ \A p \in Org \ {o}, h \in Host : w[Slot(p, h)] = dom[Slot(p, h)]
  BY <1>2, <1>3, Keys
<1>5. ASSUME NEW h \in Host
      PROVE  /\ Reached(dom[Slot(o, h)], w[Slot(o, h)], active[o])
             /\ w[Slot(o, h)].state \in G!Holding /\ dom[Slot(o, h)].state \notin G!Holding
                => ~HeldElsewhere(o, h)
  BY <1>4, RowAt
<1>6. ASSUME NEW s \in G!Key PROVE w[s] \in G!Row
  <2>1. s = Slot(s[1], s[2]) /\ s[1] \in Org /\ s[2] \in Host
    BY Keys
  <2>2. CASE s[1] = o
    BY <1>5, <2>1, <2>2 DEF Reached, Fine
  <2>3. CASE s[1] # o
    BY <1>4, <2>1, <2>3 DEF G!TypeOK
  <2>. QED BY <2>2, <2>3
<1>7. w \in [G!Key -> G!Row]
  BY <1>2, <1>6
<1>. QED BY <1>4, <1>5, <1>7 DEF Good, w

(* Giving a live host the canonical role.                                  *)
LEMMA GoodPromoted ==
  ASSUME G!TypeOK, Rows, NEW o \in Org, NEW w, Good(o, w), NEW g \in Host,
         w[Slot(o, g)].state = "live",
         NEW n, n = [w EXCEPT ![Slot(o, g)].role = "canonical"]
  PROVE  Good(o, n) /\ Canonicals(n, o) \subseteq Canonicals(w, o) \cup {g}
<1>. DEFINE r == dom[Slot(o, g)]  t == w[Slot(o, g)]  m == [t EXCEPT !.role = "canonical"]
<1>1. /\ w \in [G!Key -> G!Row] /\ Slot(o, g) \in G!Key
      /\ \A p \in Org, h \in Host : Slot(p, h) = Slot(o, g) => p = o /\ h = g
      /\ \A p \in Org, h \in Host : Slot(p, h) \in G!Key
  BY Keys DEF Good
<1>2. r \in G!Row /\ RowOK(r) /\ active[o] \in BOOLEAN /\ t \in G!Row
  BY <1>1, RowAt
<1>3. Fine(t) /\ (t = r \/ G!UpdateAccepted("web", r, t, active[o]))
  BY DEF Good, Reached
<1>4. /\ n \in [G!Key -> G!Row] /\ n[Slot(o, g)] = m
      /\ \A s \in G!Key \ {Slot(o, g)} : n[s] = w[s]
  BY <1>1 DEF G!Row
<1>5. t.state = "live" /\ m = [t EXCEPT !.role = "canonical"]
  OBVIOUS
<1>. HIDE DEF r, t, m
<1>6. /\ m \in G!Row /\ RowOK(m) /\ G!UpdateAccepted("web", r, m, active[o])
      /\ m.state = t.state /\ m.role = "canonical"
  <2>1. /\ "canonical" \in {"canonical", "alias"} /\ t.state # "none" /\ RowOK(t)
        /\ (t = r /\ r.state \in G!NonTerminal) \/ G!UpdateAccepted("web", r, t, active[o])
    BY <1>3, <1>5 DEF Fine, G!NonTerminal, G!Holding
  <2>. QED BY <1>2, <1>5, <2>1, RoleAccepted
<1>7. Reached(r, m, active[o])
  BY <1>5, <1>6 DEF Reached, Fine, LeftAlias
<1>8. \A h \in Host : n[Slot(o, h)].state = w[Slot(o, h)].state
  BY <1>1, <1>4, <1>6 DEF t
<1>9. Good(o, n)
  <2>1. ASSUME NEW p \in Org \ {o}, NEW h \in Host PROVE n[Slot(p, h)] = dom[Slot(p, h)]
    BY <1>1, <1>4 DEF Good
  <2>2. ASSUME NEW h \in Host PROVE Reached(dom[Slot(o, h)], n[Slot(o, h)], active[o])
    <3>1. CASE h = g
      BY <1>4, <1>7, <3>1 DEF r
    <3>2. CASE h # g
      BY <1>1, <1>4, <3>2 DEF Good
    <3>. QED BY <3>1, <3>2
  <2>. QED BY <1>4, <1>8, <2>1, <2>2 DEF Good
<1>10. ASSUME NEW h \in Canonicals(n, o), h # g PROVE h \in Canonicals(w, o)
  BY <1>1, <1>4, <1>10 DEF Canonicals, Open
<1>. QED BY <1>9, <1>10

-------------------------------------------------------------------------------
(* The transactions of the service *)

Kept(o) ==
  /\ G!Transaction(o) /\ Rows'
  /\ \A s \in G!Key : dom'[s].state \in G!NonTerminal => dom[s].state \in G!NonTerminal

SeenTyped(seen) == /\ DOMAIN seen \subseteq Host
                   /\ seen \in [DOMAIN seen -> [state: G!NonTerminal, id: 1..MaxId]]
EvTyped(ev) == /\ DOMAIN ev \subseteq Host
               /\ ev \in [DOMAIN ev -> {"none", "ok", "failed", "ack", "negative", "unknown", "missing"}]

LEMMA CheckTyped ==
  ASSUME NEW ck
  PROVE  ck \in CheckRecord <=>
           /\ ck = [pc |-> ck.pc, kind |-> ck.kind, org |-> ck.org, claim |-> ck.claim,
                    closed |-> ck.closed, pass |-> ck.pass, proof |-> ck.proof,
                    seen |-> ck.seen, ev |-> ck.ev]
           /\ ck.pc \in {"lookup", "call", "reread", "reconnect"}
           /\ ck.kind \in {"check", "reconnect"}
           /\ ck.org \in Org /\ ck.claim \in ClaimName /\ ck.closed \in BOOLEAN
           /\ ck.pass \in {1, 2} /\ ck.proof \in {"none", "present", "absent", "unknown"}
           /\ SeenTyped(ck.seen) /\ EvTyped(ck.ev)
<1>. DEFINE E == {"none", "ok", "failed", "ack", "negative", "unknown", "missing"}
            S == [state: G!NonTerminal, id: 1..MaxId]
<1>1. \A x : x \in UNION {[hs -> S] : hs \in SUBSET Host}
              <=> DOMAIN x \subseteq Host /\ x \in [DOMAIN x -> S]
  OBVIOUS
<1>2. \A x : x \in UNION {[hs -> E] : hs \in SUBSET Host}
              <=> DOMAIN x \subseteq Host /\ x \in [DOMAIN x -> E]
  OBVIOUS
<1>. QED BY <1>1, <1>2 DEF CheckRecord, SeenTyped, EvTyped

LEMMA CheckAt ==
  ASSUME TypeOK, NEW k \in Checker, checker[k].pc # "idle"
  PROVE  /\ checker[k] \in CheckRecord
         /\ checker[k].org \in Org /\ checker[k].claim \in ClaimName
         /\ SeenTyped(checker[k].seen) /\ EvTyped(checker[k].ev)
<1>1. checker[k] \in CheckRecord
  BY DEF TypeOK, Idle
<1>. QED BY <1>1, CheckTyped

LEMMA OutcomeReached ==
  ASSUME TypeOK, Rows, NEW k \in Checker, Gathered(checker[k]), NEW h \in Unmoved(checker[k]),
         ClosesRow(checker[k], h) => ~active[checker[k].org], NEW t \in Outcomes(checker[k], h)
  PROVE  LET r == dom[Slot(checker[k].org, h)] IN
         /\ Reached(r, t, active[checker[k].org])
         /\ t.state \in G!Holding /\ r.state \notin G!Holding => ~HeldElsewhere(checker[k].org, h)
         /\ t.role \in {r.role, "alias"}
<1>. DEFINE ck == checker[k]  o == ck.org  r == dom[Slot(o, h)]
<1>1. o \in Org
  BY CheckAt DEF Gathered
<1>2. h \in Open(dom, o) /\ h \in Host /\ r.state \in G!NonTerminal /\ r.state = ck.seen[h].state
  BY DEF Unmoved, Still, Open
<1>3. r \in G!Row /\ RowOK(r) /\ active[o] \in BOOLEAN
  BY <1>1, <1>2, RowAt DEF TypeOK
<1>4. CASE ClosesRow(ck, h)
  <2>1. t = Removed(r, "org_closed")
    BY <1>4 DEF Outcomes
  <2>2. ~active[o] /\ r.state \in G!NonTerminal \ {"parked", "release_pending"}
    BY <1>2, <1>4 DEF ClosesRow
  <2>. HIDE DEF ck, o, r
  <2>3. /\ Reached(r, Removed(r, "org_closed"), active[o]) /\ Removed(r, "org_closed").role = "alias"
        /\ Removed(r, "org_closed").state \in {"released", "parked"}
        /\ Removed(r, "org_closed").state \in G!Holding => r.state \in G!Holding
    BY <1>3, <2>2, RemovedReached
  <2>. QED BY <2>1, <2>3 DEF ck, o, r
<1>5. CASE ~ClosesRow(ck, h)
  <2>1. t \in ApplyRow(o, h, r, ck.proof, ck.ev[h])
    BY <1>5 DEF Outcomes
  <2>. QED BY <1>1, <1>2, <2>1, ApplyRowReached DEF TypeOK
<1>. QED BY <1>4, <1>5

LEMMA ApplyKept ==
  ASSUME IInv, NEW k \in Checker, Apply(k)
  PROVE  Kept(checker[k].org)
<1>. DEFINE ck == checker[k]  o == ck.org  hosts == Unmoved(ck)
<1>1. /\ Gathered(ck) /\ active' = active
      /\ ck.closed /\ active[o] => \A h \in hosts : ~ClosesRow(ck, h)
  BY DEF Apply
<1>2. PICK f : /\ DOMAIN f = {Slot(o, h) : h \in hosts}
               /\ \A h \in hosts : f[Slot(o, h)] \in Outcomes(ck, h)
               /\ dom' \in EnsureCanonical(Written(dom, f), o, Still(ck))
  BY DEF Apply
<1>3. o \in Org
  BY <1>1, CheckAt DEF IInv, Gathered
<1>4. hosts \in SUBSET Host /\ hosts \subseteq Open(dom, o)
  BY DEF Unmoved, Still, Open
<1>5. ASSUME NEW h \in hosts
      PROVE  /\ Reached(dom[Slot(o, h)], f[Slot(o, h)], active[o])
             /\ f[Slot(o, h)].state \in G!Holding /\ dom[Slot(o, h)].state \notin G!Holding
                => ~HeldElsewhere(o, h)
             /\ f[Slot(o, h)].role \in {dom[Slot(o, h)].role, "alias"}
  <2>1. ClosesRow(ck, h) => ~active[o]
    BY <1>1 DEF ClosesRow
  <2>2. f[Slot(o, h)] \in Outcomes(ck, h)
    BY <1>2
  <2>. QED BY <1>1, <2>1, <2>2, OutcomeReached DEF IInv
<1>. DEFINE w == Written(dom, f)
<1>6. /\ Good(o, w)
      /\ \A h \in hosts : w[Slot(o, h)] = f[Slot(o, h)]
      /\ \A h \in Host \ hosts : w[Slot(o, h)] = dom[Slot(o, h)]
  BY <1>2, <1>3, <1>4, <1>5, GoodWritten DEF IInv, TypeOK
<1>. HIDE DEF ck, o, hosts, w
<1>7. Canonicals(w, o) \subseteq Canonicals(dom, o)
  <2>. SUFFICES ASSUME NEW h \in Canonicals(w, o) PROVE h \in Canonicals(dom, o)
    OBVIOUS
  <2>1. CASE h \in hosts
    BY <1>4, <1>5, <1>6, <2>1 DEF Canonicals, Open
  <2>2. CASE h \notin hosts
    BY <1>6, <2>2 DEF Canonicals, Open
  <2>. QED BY <2>1, <2>2
<1>8. OneEach
  BY IndexesAre DEF IInv
<1>9. Good(o, dom') /\ \A g, h \in Canonicals(dom', o) : g = h
  <2>1. CASE dom' = w
    BY <1>3, <1>6, <1>7, <1>8, <2>1 DEF OneEach
  <2>2. CASE dom' # w
    <3>1. PICK g \in LiveUnheld(w, o) : /\ dom' = [w EXCEPT ![Slot(o, g)].role = "canonical"]
                                         /\ Canonicals(w, o) = {}
      BY <1>2, <2>2 DEF EnsureCanonical, w
    <3>2. g \in Host /\ w[Slot(o, g)].state = "live"
      BY DEF LiveUnheld, Open
    <3>3. Good(o, dom') /\ Canonicals(dom', o) \subseteq Canonicals(w, o) \cup {g}
      <4>1. G!TypeOK /\ Rows /\ Good(o, w)
        BY <1>6 DEF IInv, TypeOK
      <4>2. \A n : n = [w EXCEPT ![Slot(o, g)].role = "canonical"]
                     => Good(o, n) /\ Canonicals(n, o) \subseteq Canonicals(w, o) \cup {g}
        BY <1>3, <3>2, <4>1, GoodPromoted
      <4>. QED BY <3>1, <4>2
    <3>. QED BY <3>1, <3>3
  <2>. QED BY <2>1, <2>2
<1>. QED BY <1>1, <1>3, <1>9, TableAccepted DEF IInv, TypeOK, Kept, ck, o

LEMMA ApplyReconnectKept ==
  ASSUME IInv, NEW k \in Checker, ApplyReconnect(k), dom' # dom
  PROVE  Kept(checker[k].org)
<1>. DEFINE ck == checker[k]  o == ck.org
            hosts == {h \in HostsOf(ck.claim) : dom[Slot(o, h)].state = "parked"}
            f == [s \in {Slot(o, h) : h \in hosts} |-> Transition(dom[s], "reconnect", "none")]
            w == Written(dom, f)
<1>1. dom' = w /\ active' = active /\ ck.pc = "reconnect"
  BY DEF ApplyReconnect
<1>2. o \in Org /\ hosts \in SUBSET Host
  BY <1>1, CheckAt DEF IInv, HostsOf
<1>3. DOMAIN f = {Slot(o, h) : h \in hosts}
  OBVIOUS
<1>4. ASSUME NEW h \in hosts
      PROVE  /\ Reached(dom[Slot(o, h)], f[Slot(o, h)], active[o])
             /\ f[Slot(o, h)].state \in G!Holding /\ dom[Slot(o, h)].state \notin G!Holding
                => ~HeldElsewhere(o, h)
             /\ f[Slot(o, h)].role = dom[Slot(o, h)].role
             /\ dom[Slot(o, h)].state \in G!NonTerminal
  <2>1. /\ dom[Slot(o, h)] \in G!Row /\ RowOK(dom[Slot(o, h)]) /\ LeftAlias(dom[Slot(o, h)])
        /\ active[o] \in BOOLEAN /\ h \in Host
    BY <1>2, RowAt DEF IInv, TypeOK
  <2>2. "reconnect" \in Event \ {"remove", "force_release"} /\ dom[Slot(o, h)].state = "parked"
    BY DEF Event
  <2>3. Fits("reconnect", dom[Slot(o, h)], "none", active[o])
    BY <2>2 DEF Fits
  <2>4. f[Slot(o, h)] = Transition(dom[Slot(o, h)], "reconnect", "none")
    OBVIOUS
  <2>. HIDE DEF f, o
  <2>5. LET t == Transition(dom[Slot(o, h)], "reconnect", "none") IN
        /\ Reached(dom[Slot(o, h)], t, active[o]) /\ t.role = dom[Slot(o, h)].role
        /\ t.state = NextState(dom[Slot(o, h)].state, "reconnect")
    BY <2>1, <2>2, <2>3, EventReached
  <2>. QED BY <2>2, <2>4, <2>5 DEF G!NonTerminal, G!Holding
<1>. HIDE DEF f
<1>5. /\ Good(o, w)
      /\ \A h \in hosts : w[Slot(o, h)] = f[Slot(o, h)]
      /\ \A h \in Host \ hosts : w[Slot(o, h)] = dom[Slot(o, h)]
  BY <1>2, <1>3, <1>4, GoodWritten DEF IInv, TypeOK
<1>. HIDE DEF ck, o, w, hosts
<1>6. Canonicals(w, o) \subseteq Canonicals(dom, o)
  <2>. SUFFICES ASSUME NEW h \in Canonicals(w, o) PROVE h \in Canonicals(dom, o)
    OBVIOUS
  <2>1. CASE h \in hosts
    BY <1>2, <1>4, <1>5, <2>1 DEF Canonicals, Open
  <2>2. CASE h \notin hosts
    BY <1>5, <2>2 DEF Canonicals, Open
  <2>. QED BY <2>1, <2>2
<1>7. OneEach
  BY IndexesAre DEF IInv
<1>8. \A g, h \in Canonicals(w, o) : g = h
  BY <1>2, <1>6, <1>7 DEF OneEach
<1>. QED BY <1>1, <1>2, <1>5, <1>8, TableAccepted DEF IInv, TypeOK, Kept, ck, o

LEMMA RemoveClaimKept ==
  ASSUME IInv, NEW o \in Org, NEW c \in ClaimName, RemoveClaim(o, c)
  PROVE  Kept(o)
<1>. DEFINE hosts == {h \in HostsOf(c) \cap Open(dom, o) :
                        dom[Slot(o, h)].state \notin {"parked", "release_pending"}}
            elsewhere == LiveUnheld(dom, o) \ HostsOf(c)
            f == [s \in {Slot(o, h) : h \in hosts} |-> Removed(dom[s], "removed")]
            w == Written(dom, f)
<1>0. G!TypeOK /\ Rows /\ G!Indexes
  BY DEF IInv, TypeOK
<1>1. /\ active' = active
      /\ \/ dom' = w /\ ~(hosts \cap Canonicals(dom, o) # {} /\ elsewhere # {})
         \/ /\ hosts \cap Canonicals(dom, o) # {}
            /\ \E g \in elsewhere : dom' = [w EXCEPT ![Slot(o, g)].role = "canonical"]
  BY DEF RemoveClaim
<1>2. /\ hosts \in SUBSET Host /\ hosts \subseteq HostsOf(c)
      /\ \A g \in elsewhere : g \in Host \ HostsOf(c) /\ dom[Slot(o, g)].state = "live"
  BY DEF HostsOf, LiveUnheld, Open
<1>3. DOMAIN f = {Slot(o, h) : h \in hosts}
  OBVIOUS
<1>4. ASSUME NEW h \in hosts
      PROVE  /\ Reached(dom[Slot(o, h)], f[Slot(o, h)], active[o])
             /\ f[Slot(o, h)].state \in G!Holding /\ dom[Slot(o, h)].state \notin G!Holding
                => ~HeldElsewhere(o, h)
             /\ f[Slot(o, h)].role = "alias"
  <2>1. /\ dom[Slot(o, h)] \in G!Row /\ RowOK(dom[Slot(o, h)]) /\ active[o] \in BOOLEAN
    BY <1>0, <1>2, RowAt
  <2>2. dom[Slot(o, h)].state \in G!NonTerminal \ {"parked", "release_pending"}
    BY DEF Open
  <2>3. f[Slot(o, h)] = Removed(dom[Slot(o, h)], "removed")
    OBVIOUS
  <2>4. "removed" \in {"removed", "org_closed"} /\ ("removed" = "org_closed" => ~active[o])
    OBVIOUS
  <2>. DEFINE r == dom[Slot(o, h)]
  <2>. HIDE DEF f, r
  <2>5. /\ Reached(r, Removed(r, "removed"), active[o]) /\ Removed(r, "removed").role = "alias"
        /\ Removed(r, "removed").state \in {"released", "parked"}
        /\ Removed(r, "removed").state \in G!Holding => r.state \in G!Holding
    BY <2>1, <2>2, <2>4, RemovedReached DEF r
  <2>. QED BY <2>3, <2>5 DEF r
<1>. HIDE DEF f
<1>5. /\ Good(o, w)
      /\ \A h \in hosts : w[Slot(o, h)] = f[Slot(o, h)]
      /\ \A h \in Host \ hosts : w[Slot(o, h)] = dom[Slot(o, h)]
  <2>. HIDE DEF hosts
  <2>. QED BY <1>0, <1>2, <1>3, <1>4, GoodWritten
<1>. HIDE DEF w, hosts, elsewhere
<1>6. Canonicals(w, o) \subseteq Canonicals(dom, o) \ hosts
  <2>. SUFFICES ASSUME NEW h \in Canonicals(w, o) PROVE h \in Canonicals(dom, o) \ hosts
    OBVIOUS
  <2>1. h \notin hosts
    BY <1>4, <1>5 DEF Canonicals, Open
  <2>. QED BY <1>5, <2>1 DEF Canonicals, Open
<1>7. \A g, h \in Canonicals(dom, o) : g = h
  BY <1>0, IndexesAre DEF OneEach
<1>8. Good(o, dom') /\ \A g, h \in Canonicals(dom', o) : g = h
  <2>1. CASE dom' = w
    BY <1>5, <1>6, <1>7, <2>1
  <2>2. CASE dom' # w
    <3>1. PICK g \in elsewhere : dom' = [w EXCEPT ![Slot(o, g)].role = "canonical"]
      BY <1>1, <2>2
    <3>2. g \in Host /\ g \notin hosts /\ w[Slot(o, g)].state = "live"
      BY <1>2, <1>5
    <3>3. \A n : n = [w EXCEPT ![Slot(o, g)].role = "canonical"]
                   => Good(o, n) /\ Canonicals(n, o) \subseteq Canonicals(w, o) \cup {g}
      BY <1>0, <1>5, <3>2, GoodPromoted
    <3>4. Canonicals(w, o) = {}
      BY <1>1, <1>6, <1>7, <2>2
    <3>5. Good(o, dom') /\ Canonicals(dom', o) \subseteq Canonicals(w, o) \cup {g}
      BY <3>1, <3>3
    <3>. QED BY <3>4, <3>5
  <2>. QED BY <2>1, <2>2
<1>. QED BY <1>0, <1>1, <1>8, TableAccepted DEF Kept

LEMMA ChangeCanonicalKept ==
  ASSUME IInv, NEW o \in Org, NEW g \in Host, ChangeCanonical(o, g)
  PROVE  Kept(o)
<1>. DEFINE hosts == Canonicals(dom, o)
            f == [s \in {Slot(o, h) : h \in hosts} |-> Demoted(dom[s])]
            w == Written(dom, f)
<1>0. G!TypeOK /\ Rows /\ G!Indexes
  BY DEF IInv, TypeOK
<1>1. /\ active' = active /\ dom' = [w EXCEPT ![Slot(o, g)].role = "canonical"]
      /\ dom[Slot(o, g)].state = "live" /\ g \notin hosts
  BY DEF ChangeCanonical, LiveUnheld
<1>2. hosts \in SUBSET Host /\ \A h \in hosts : dom[Slot(o, h)].state \in G!NonTerminal
  BY DEF Canonicals, Open
<1>3. DOMAIN f = {Slot(o, h) : h \in hosts}
  OBVIOUS
<1>4. ASSUME NEW h \in hosts
      PROVE  /\ Reached(dom[Slot(o, h)], f[Slot(o, h)], active[o])
             /\ f[Slot(o, h)].state \in G!Holding /\ dom[Slot(o, h)].state \notin G!Holding
                => ~HeldElsewhere(o, h)
             /\ f[Slot(o, h)].role = "alias"
  <2>. DEFINE r == dom[Slot(o, h)]  n == f[Slot(o, h)]  a == active[o]
  <2>1. r \in G!Row /\ RowOK(r) /\ a \in BOOLEAN
    BY <1>0, <1>2, RowAt
  <2>2. /\ r.state \in G!NonTerminal /\ r.state # "none" /\ "alias" \in {"canonical", "alias"}
    BY <1>2 DEF G!NonTerminal, G!Holding
  <2>3. n = [r EXCEPT !.role = "alias"]
    BY DEF Demoted
  <2>. HIDE DEF r, n, a
  <2>4. /\ n \in G!Row /\ RowOK(n) /\ G!UpdateAccepted("web", r, n, a)
        /\ n.state = r.state /\ n.role = "alias"
    BY <2>1, <2>2, <2>3, RoleAccepted
  <2>. QED BY <2>4 DEF Reached, Fine, LeftAlias, r, n, a
<1>. HIDE DEF f
<1>5. /\ Good(o, w)
      /\ \A h \in hosts : w[Slot(o, h)] = f[Slot(o, h)]
      /\ \A h \in Host \ hosts : w[Slot(o, h)] = dom[Slot(o, h)]
  BY <1>0, <1>2, <1>3, <1>4, GoodWritten
<1>6. w[Slot(o, g)].state = "live"
  BY <1>1, <1>5
<1>7. Canonicals(w, o) = {}
  <2>. SUFFICES ASSUME NEW h \in Canonicals(w, o) PROVE FALSE
    OBVIOUS
  <2>1. h \in Host /\ w[Slot(o, h)].role = "canonical" /\ w[Slot(o, h)].state \in G!NonTerminal
    BY DEF Canonicals, Open
  <2>2. h \notin hosts
    BY <1>4, <1>5, <2>1
  <2>. QED BY <1>5, <2>1, <2>2 DEF Canonicals, Open
<1>. HIDE DEF w, hosts
<1>8. \A n : n = [w EXCEPT ![Slot(o, g)].role = "canonical"]
               => Good(o, n) /\ Canonicals(n, o) \subseteq Canonicals(w, o) \cup {g}
  BY <1>0, <1>5, <1>6, GoodPromoted
<1>9. Good(o, dom') /\ \A x, y \in Canonicals(dom', o) : x = y
  <2>1. Good(o, dom') /\ Canonicals(dom', o) \subseteq Canonicals(w, o) \cup {g}
    BY <1>1, <1>8
  <2>. QED BY <1>7, <2>1
<1>. QED BY <1>0, <1>1, <1>9, TableAccepted DEF Kept

LEMMA ForceReleaseKept ==
  ASSUME IInv, NEW o \in Org, NEW g \in Host, ForceRelease(o, g)
  PROVE  Kept(o)
<1>0. G!TypeOK /\ Rows /\ G!Indexes
  BY DEF IInv, TypeOK
<1>1. PICK cause \in G!ForcedCause :
        dom' = [dom EXCEPT ![Slot(o, g)] = Demoted(Transition(@, "force_release", cause))]
  BY DEF ForceRelease
<1>. DEFINE r == dom[Slot(o, g)]
            t == Demoted(Transition(r, "force_release", cause))
            f == [s \in {Slot(o, h) : h \in {g}} |-> t]
            w == Written(dom, f)
<1>2. active' = active /\ r.state \in G!NonTerminal \ {"release_pending"}
  BY DEF ForceRelease, Open
<1>3. r \in G!Row /\ RowOK(r) /\ active[o] \in BOOLEAN
  BY <1>0, RowAt
<1>4. cause \in G!Cause /\ "force_release" \in {"remove", "force_release"}
  BY DEF G!Cause
<1>5. Fits("force_release", r, cause, active[o])
  BY <1>2 DEF Fits
<1>6. dom' = w
  <2>1. dom \in [G!Key -> G!Row] /\ Slot(o, g) \in G!Key
    BY <1>0, Keys DEF G!TypeOK
  <2>. HIDE DEF t
  <2>2. dom' = [dom EXCEPT ![Slot(o, g)] = t]
    BY <1>1 DEF t
  <2>3. \A s \in G!Key : dom'[s] = w[s]
    BY <2>1, <2>2 DEF Written
  <2>4. DOMAIN dom' = G!Key /\ dom' = [s \in G!Key |-> dom'[s]]
    BY <2>1, <2>2
  <2>5. DOMAIN w = G!Key /\ w = [s \in G!Key |-> w[s]]
    BY <2>1 DEF Written
  <2>. QED BY <2>3, <2>4, <2>5
<1>. HIDE DEF r
<1>7. Reached(r, t, active[o]) /\ t.role = "alias" /\ t.state = NextState(r.state, "force_release")
  BY <1>3, <1>4, <1>5, ExitReached
<1>8. t.state \in G!Holding => r.state \in G!Holding
  BY <1>2, <1>7 DEF NextState, G!Holding, G!NonTerminal
<1>9. DOMAIN f = {Slot(o, h) : h \in {g}} /\ {g} \in SUBSET Host /\ f[Slot(o, g)] = t
  OBVIOUS
<1>. HIDE DEF f, t
<1>10. \A h \in {g} : /\ Reached(dom[Slot(o, h)], f[Slot(o, h)], active[o])
                      /\ f[Slot(o, h)].state \in G!Holding /\ dom[Slot(o, h)].state \notin G!Holding
                         => ~HeldElsewhere(o, h)
  BY <1>7, <1>8, <1>9 DEF r
<1>11. /\ Good(o, w)
       /\ \A h \in {g} : w[Slot(o, h)] = f[Slot(o, h)]
       /\ \A h \in Host \ {g} : w[Slot(o, h)] = dom[Slot(o, h)]
  BY <1>0, <1>9, <1>10, GoodWritten
<1>. HIDE DEF w
<1>12. Canonicals(w, o) \subseteq Canonicals(dom, o)
  BY <1>7, <1>9, <1>11 DEF Canonicals, Open
<1>13. \A x, y \in Canonicals(w, o) : x = y
  BY <1>0, <1>12, IndexesAre DEF OneEach
<1>. QED BY <1>0, <1>2, <1>6, <1>11, <1>13, TableAccepted DEF Kept

(* A new claim: pending rows in free slots, within the cap.                *)
LEMMA ClaimAccepted ==
  ASSUME IInv, NEW o \in Org, NEW c \in ClaimName, ClaimDomain(o, c)
  PROVE  /\ G!Transaction(o) /\ Rows'
         /\ \A s \in G!Key : dom'[s].state \in G!NonTerminal =>
              \/ dom[s].state \in G!NonTerminal
              \/ s \in {Slot(o, h) : h \in HostsOf(c) \ Open(dom, o)}
<1>. DEFINE missing == HostsOf(c) \ Open(dom, o)
<1>0. G!TypeOK /\ Rows /\ OneHolderEach /\ OneEach /\ Capped
  BY IndexesAre DEF IInv, TypeOK
<1>1. PICK designated \in HostsOf(c) :
        LET role(h) == IF Canonicals(dom, o) = {} /\ h = designated THEN "canonical" ELSE "alias"
        IN dom' = Written(dom, [s \in {Slot(o, h) : h \in missing} |-> G!Inserted(role(s[2]))])
  BY DEF ClaimDomain
<1>. DEFINE role(h) == IF Canonicals(dom, o) = {} /\ h = designated THEN "canonical" ELSE "alias"
            f == [s \in {Slot(o, h) : h \in missing} |-> G!Inserted(role(s[2]))]
<1>2. dom' = Written(dom, f) /\ active' = active /\ missing \subseteq Host
  BY <1>1 DEF ClaimDomain, HostsOf
<1>3. dom \in [G!Key -> G!Row]
  BY <1>0 DEF G!TypeOK
<1>4. /\ \A p \in Org \ {o}, h \in Host : dom'[Slot(p, h)] = dom[Slot(p, h)]
      /\ \A h \in Host \ missing : dom'[Slot(o, h)] = dom[Slot(o, h)]
      /\ \A h \in missing : dom'[Slot(o, h)] = G!Inserted(role(h))
      /\ DOMAIN dom' = G!Key /\ dom' = [s \in G!Key |-> dom'[s]]
  <2>1. /\ dom' = [s \in G!Key |-> IF s \in DOMAIN f THEN f[s] ELSE dom[s]]
    BY <1>2, <1>3 DEF Written
  <2>2. \A p \in Org, h \in Host : Slot(p, h) \in DOMAIN f <=> p = o /\ h \in missing
    BY <1>2, Keys
  <2>3. \A h \in missing : f[Slot(o, h)] = G!Inserted(role(h))
    BY <1>2, Keys
  <2>. HIDE DEF f, missing
  <2>. QED BY <1>2, <2>1, <2>2, <2>3, Keys
<1>5. ASSUME NEW h \in missing
      PROVE  /\ G!Inserted(role(h)) \in G!Row /\ RowOK(G!Inserted(role(h)))
             /\ LeftAlias(G!Inserted(role(h))) /\ G!Inserted(role(h)).state = "pending"
             /\ G!Inserted(role(h)).role = role(h)
             /\ G!InsertAccepted("web", dom[Slot(o, h)], G!Inserted(role(h)))
  <2>1. role(h) \in {"canonical", "alias"}
    OBVIOUS
  <2>2. dom[Slot(o, h)].state \notin G!NonTerminal
    BY <1>2 DEF Open
  <2>. DEFINE x == role(h)
  <2>. HIDE DEF x
  <2>3. /\ G!Inserted(x).state = "pending" /\ G!Inserted(x).role = x /\ G!Inserted(x).cause = "none"
        /\ G!Inserted(x).grace = "none" /\ G!Inserted(x).expired = FALSE /\ G!Inserted(x).reason = FALSE
        /\ G!Inserted(x) \in G!Row
    BY <2>1 DEF x, G!Inserted, G!NoRow, G!Row, G!State, G!NonTerminal, G!Cause, G!Grace
  <2>4. RowOK(G!Inserted(x)) /\ LeftAlias(G!Inserted(x))
    BY <2>1, <2>3 DEF x, RowOK, LeftAlias, G!ForcedCause, G!Exit
  <2>5. G!InsertAccepted("web", dom[Slot(o, h)], G!Inserted(x))
    BY <2>1, <2>2 DEF x, G!InsertAccepted, G!RoleAllowed
  <2>. QED BY <2>3, <2>4, <2>5 DEF x
<1>. HIDE DEF missing, f
<1>6. ASSUME NEW p \in Org, NEW h \in Host
      PROVE  /\ \/ dom'[Slot(p, h)] = dom[Slot(p, h)]
                \/ p = o /\ h \in missing /\ G!InsertAccepted("web", dom[Slot(p, h)], dom'[Slot(p, h)])
             /\ dom'[Slot(p, h)] \in G!Row /\ RowOK(dom'[Slot(p, h)]) /\ LeftAlias(dom'[Slot(p, h)])
             /\ dom'[Slot(p, h)].state \in G!Holding => dom[Slot(p, h)] = dom'[Slot(p, h)]
  <2>1. /\ dom[Slot(p, h)] \in G!Row /\ RowOK(dom[Slot(p, h)]) /\ LeftAlias(dom[Slot(p, h)])
    BY <1>0, RowAt
  <2>2. CASE p = o /\ h \in missing
    BY <1>4, <1>5, <2>2 DEF G!Holding
  <2>3. CASE ~(p = o /\ h \in missing)
    BY <1>4, <2>1, <2>3
  <2>. QED BY <2>2, <2>3
<1>7. OneHolderEach'
  BY <1>0, <1>6 DEF OneHolderEach
<1>8. OneEach'
  <2>1. ASSUME NEW p \in Org, p # o PROVE Canonicals(dom', p) = Canonicals(dom, p)
    BY <1>4, <2>1 DEF Canonicals, Open
  <2>2. \A g, h \in Canonicals(dom', o) : g = h
    <3>1. CASE Canonicals(dom, o) = {}
      <4>1. Canonicals(dom', o) \subseteq {designated}
        <5>. SUFFICES ASSUME NEW h \in Canonicals(dom', o), h # designated PROVE FALSE
          OBVIOUS
        <5>1. /\ h \in Host /\ dom'[Slot(o, h)].role = "canonical"
              /\ dom'[Slot(o, h)].state \in G!NonTerminal
          BY DEF Canonicals, Open
        <5>2. h \notin missing
          BY <1>4, <1>5, <5>1
        <5>. QED BY <1>4, <3>1, <5>1, <5>2 DEF Canonicals, Open
      <4>. QED BY <4>1
    <3>2. CASE Canonicals(dom, o) # {}
      <4>1. Canonicals(dom', o) \subseteq Canonicals(dom, o)
        <5>. SUFFICES ASSUME NEW h \in Canonicals(dom', o) PROVE h \in Canonicals(dom, o)
          OBVIOUS
        <5>1. /\ h \in Host /\ dom'[Slot(o, h)].role = "canonical"
              /\ dom'[Slot(o, h)].state \in G!NonTerminal
          BY DEF Canonicals, Open
        <5>2. h \notin missing
          BY <1>4, <1>5, <3>2, <5>1
        <5>. QED BY <1>4, <5>1, <5>2 DEF Canonicals, Open
      <4>. QED BY <1>0, <4>1 DEF OneEach
    <3>. QED BY <3>1, <3>2
  <2>. QED BY <1>0, <2>1, <2>2 DEF OneEach
<1>9. Capped'
  <2>1. ASSUME NEW p \in Org, p # o PROVE Open(dom', p) = Open(dom, p)
    BY <1>4, <2>1 DEF Open
  <2>2. Open(dom', o) \subseteq Open(dom, o) \cup missing /\ IsFiniteSet(missing)
    <3>1. IsFiniteSet(missing)
      BY <1>2, FS_Subset, BoundAssumption
    <3>2. Open(dom', o) \subseteq Open(dom, o) \cup missing
      BY <1>4 DEF Open
    <3>. QED BY <3>1, <3>2
  <2>3. IsFiniteSet(Open(dom, o)) /\ Cardinality(Open(dom, o)) \in Nat /\ Cardinality(missing) \in Nat
    BY <2>2, ClaimedAreOpen, FS_CardinalityType
  <2>4. Open(dom, o) \cap missing = {}
    BY DEF missing
  <2>5. /\ IsFiniteSet(Open(dom, o) \cup missing)
        /\ Cardinality(Open(dom, o) \cup missing) = Cardinality(Open(dom, o)) + Cardinality(missing)
    <3>1. /\ IsFiniteSet(Open(dom, o) \cup missing)
          /\ Cardinality(Open(dom, o) \cup missing)
               = Cardinality(Open(dom, o)) + Cardinality(missing) - Cardinality(Open(dom, o) \cap missing)
      BY <2>2, <2>3, FS_Union
    <3>2. Cardinality(Open(dom, o) \cap missing) = 0
      BY <2>4, FS_EmptySet
    <3>. QED BY <2>3, <3>1, <3>2
  <2>6. Cardinality(Open(dom, o)) + Cardinality(missing) <= WebCap
    BY DEF ClaimDomain, missing
  <2>7. /\ Cardinality(Open(dom', o)) <= Cardinality(Open(dom, o) \cup missing)
        /\ IsFiniteSet(Open(dom', o))
    BY <2>2, <2>5, FS_Subset
  <2>8. Cardinality(Open(dom', o)) \in Nat
    BY <2>7, FS_CardinalityType
  <2>9. Cardinality(Open(dom', o)) <= WebCap
    BY <2>3, <2>5, <2>6, <2>7, <2>8, BoundAssumption
  <2>. QED BY <1>0, <2>1, <2>9 DEF Capped
<1>10. G!Indexes'
  <2>1. (G!Indexes <=> OneHolderEach /\ OneEach /\ Capped)'
    BY IndexesAre, PTL
  <2>. QED BY <1>7, <1>8, <1>9, <2>1
<1>11. ASSUME NEW s \in G!Key
       PROVE  /\ \/ dom'[s] = dom[s]
                 \/ /\ G!OrgOf(s) = o /\ G!InsertAccepted(G!PurposeOf(s), dom[s], dom'[s])
                    /\ s \in {Slot(o, h) : h \in missing}
              /\ dom'[s] \in G!Row /\ RowOK(dom'[s]) /\ LeftAlias(dom'[s])
  <2>1. /\ s = Slot(s[1], s[2]) /\ s[1] \in Org /\ s[2] \in Host
        /\ G!OrgOf(s) = s[1] /\ G!PurposeOf(s) = "web"
    BY Keys
  <2>. QED BY <1>6, <2>1
<1>12. dom' \in [G!Key -> G!Row]
  BY <1>4, <1>11
<1>13. G!Transaction(o)
  BY <1>2, <1>10, <1>11, <1>12 DEF G!Transaction
<1>. QED BY <1>11, <1>13 DEF Rows, missing

-------------------------------------------------------------------------------
(* Each step *)

LEMMA IndexesKept ==
  ASSUME G!Indexes,
         \A s \in G!Key : dom'[s].state = dom[s].state /\ dom'[s].role = dom[s].role
  PROVE  G!Indexes'
<1>1. G!OneHolder'
  BY DEF G!Indexes, G!OneHolder
<1>2. G!OneCanonical'
  BY DEF G!Indexes, G!OneCanonical
<1>3. ASSUME NEW o, NEW p PROVE G!Claimed(o, p)' = G!Claimed(o, p)
  BY DEF G!Claimed
<1>4. G!WithinCaps'
  BY <1>3 DEF G!Indexes, G!WithinCaps
<1>. QED BY <1>1, <1>2, <1>4 DEF G!Indexes

(* What a step does to the table, and what it keeps.                       *)
TableStep ==
  /\ [G!Next]_(G!vars)
  /\ G!TypeOK' /\ Rows' /\ G!Indexes'

LEMMA TableLeft ==
  ASSUME IInv, UNCHANGED <<dom, active>>
  PROVE  TableStep
<1>1. Rows'
  BY DEF IInv, Rows
<1>2. G!Indexes'
  BY IndexesKept DEF IInv
<1>. QED BY <1>1, <1>2 DEF TableStep, IInv, TypeOK, G!TypeOK, G!vars

LEMMA TransactionStep ==
  ASSUME IInv, NEW o \in Org, G!Transaction(o), Rows'
  PROVE  TableStep
<1>1. G!TypeOK'
  BY DEF G!Transaction, IInv, TypeOK, G!TypeOK
<1>2. G!Next /\ G!Indexes'
  BY DEF G!Next, G!Transaction
<1>. QED BY <1>1, <1>2 DEF TableStep

LEMMA ClockStep ==
  ASSUME IInv, NEW o \in Org, NEW h \in Host, Clock(o, h)
  PROVE  TableStep /\ \A s \in G!Key : dom'[s].state = dom[s].state
<1>. DEFINE k == Slot(o, h)  r == dom[k]
<1>1. k \in G!Key /\ r \in G!Row /\ RowOK(r) /\ LeftAlias(r) /\ dom \in [G!Key -> G!Row]
  BY Keys, RowAt DEF IInv, TypeOK, G!TypeOK
<1>2. PICK t : /\ dom' = [dom EXCEPT ![k] = t] /\ active' = active
               /\ \/ t = [r EXCEPT !.grace = "over"] /\ r.grace = "running"
                  \/ t = [r EXCEPT !.expired = TRUE]
  BY <1>1 DEF Clock, G!GraceRunsOut, G!ExpiryPasses
<1>3. G!Next
  BY <1>1 DEF Clock, G!Next
<1>. HIDE DEF k, r
<1>4. /\ t \in G!Row /\ t.state = r.state /\ t.role = r.role /\ t.cause = r.cause
      /\ t.reason = r.reason /\ (t.grace = "none" <=> r.grace = "none")
      /\ r.grace = "over" => t.grace = "over"
  BY <1>1, <1>2 DEF G!Row, G!Grace
<1>5. RowOK(t) /\ LeftAlias(t)
  BY <1>1, <1>4 DEF RowOK, LeftAlias
<1>6. /\ dom' \in [G!Key -> G!Row] /\ dom'[k] = t
      /\ \A s \in G!Key \ {k} : dom'[s] = dom[s]
  BY <1>1, <1>2, <1>4
<1>7. \A s \in G!Key : dom'[s].state = dom[s].state /\ dom'[s].role = dom[s].role
  BY <1>4, <1>6 DEF r
<1>8. Rows'
  BY <1>5, <1>6 DEF Rows, IInv
<1>9. G!Indexes'
  BY <1>7, IndexesKept DEF IInv
<1>10. G!TypeOK'
  BY <1>2, <1>6 DEF G!TypeOK, IInv, TypeOK
<1>. QED BY <1>3, <1>7, <1>8, <1>9, <1>10 DEF TableStep

LEMMA LifecycleStep ==
  ASSUME IInv, NEW o \in Org, LifecycleEvent(o)
  PROVE  TableStep /\ dom' = dom
<1>1. G!LifecycleEvent(o) /\ dom' = dom
  BY DEF LifecycleEvent, G!LifecycleEvent
<1>2. G!TypeOK'
  BY <1>1 DEF G!LifecycleEvent, G!TypeOK, IInv, TypeOK
<1>3. Rows' /\ G!Indexes'
  BY <1>1, IndexesKept DEF Rows, IInv
<1>. QED BY <1>1, <1>2, <1>3 DEF TableStep, G!Next

(* A check as it starts, and as it reads its rows again.                   *)
LEMMA CheckBuilt ==
  ASSUME IInv, NEW pc \in {"lookup", "call", "reread", "reconnect"}, NEW kind \in {"check", "reconnect"},
         NEW o \in Org, NEW c \in ClaimName, NEW closed \in BOOLEAN, NEW pass \in {1, 2},
         NEW proof \in {"none", "present", "absent", "unknown"}, NEW hosts \in SUBSET Open(dom, o)
  PROVE  Check(pc, kind, o, c, closed, pass, proof, hosts) \in CheckRecord
<1>. DEFINE seen == [h \in hosts |-> [state |-> dom[Slot(o, h)].state, id |-> id[Slot(o, h)]]]
            ev == [h \in hosts |-> "none"]
            ck == Check(pc, kind, o, c, closed, pass, proof, hosts)
<1>1. ASSUME NEW h \in hosts
      PROVE  /\ h \in Host /\ dom[Slot(o, h)].state \in G!NonTerminal
             /\ id[Slot(o, h)] \in 1..MaxId
  BY Keys DEF Open, IInv, IdsOK
<1>2. SeenTyped(seen) /\ EvTyped(ev)
  BY <1>1 DEF SeenTyped, EvTyped
<1>3. ck = [pc |-> pc, kind |-> kind, org |-> o, claim |-> c, closed |-> closed,
            pass |-> pass, proof |-> proof, seen |-> seen, ev |-> ev]
  BY DEF Check
<1>. HIDE DEF ck, seen, ev
<1>4. /\ ck.pc = pc /\ ck.kind = kind /\ ck.org = o /\ ck.claim = c /\ ck.closed = closed
      /\ ck.pass = pass /\ ck.proof = proof /\ ck.seen = seen /\ ck.ev = ev
  BY <1>3
<1>5. ck \in CheckRecord
  BY <1>2, <1>3, <1>4, CheckTyped
<1>. QED BY <1>5 DEF ck

LEMMA CheckUpdated ==
  ASSUME NEW ck \in CheckRecord
  PROVE  /\ \A pc \in {"lookup", "call", "reread", "reconnect"} : [ck EXCEPT !.pc = pc] \in CheckRecord
         /\ \A pass \in {1, 2} : [ck EXCEPT !.pass = pass] \in CheckRecord
         /\ \A proof \in {"none", "present", "absent", "unknown"} : [ck EXCEPT !.proof = proof] \in CheckRecord
         /\ \A seen : SeenTyped(seen) => [ck EXCEPT !.seen = seen] \in CheckRecord
         /\ \A ev : EvTyped(ev) => [ck EXCEPT !.ev = ev] \in CheckRecord
<1>. DEFINE S == UNION {[hs -> [state: G!NonTerminal, id: 1..MaxId]] : hs \in SUBSET Host}
            E == UNION {[hs -> {"none", "ok", "failed", "ack", "negative", "unknown", "missing"}]
                          : hs \in SUBSET Host}
<1>1. \A seen : SeenTyped(seen) => seen \in S
  BY DEF SeenTyped
<1>2. \A ev : EvTyped(ev) => ev \in E
  BY DEF EvTyped
<1>3. CheckRecord =
        [pc: {"lookup", "call", "reread", "reconnect"}, kind: {"check", "reconnect"},
         org: Org, claim: ClaimName, closed: BOOLEAN, pass: {1, 2},
         proof: {"none", "present", "absent", "unknown"}, seen: S, ev: E]
  BY DEF CheckRecord
<1>. HIDE DEF S, E
<1>. QED BY <1>1, <1>2, <1>3

LEMMA AdvanceTyped ==
  ASSUME IInv, NEW k \in Checker,
         Lookup(k) \/ Apply(k) \/ ApplyRefused(k) \/ Reread(k) \/ ApplyReconnect(k) \/ Crash(k)
  PROVE  \E x \in CheckRecord \cup {Idle} : checker' = [checker EXCEPT ![k] = x]
<1>. DEFINE ck == checker[k]
<1>1. /\ ck \in CheckRecord /\ ck.org \in Org /\ ck.claim \in ClaimName
      /\ SeenTyped(ck.seen) /\ EvTyped(ck.ev)
  <2>1. ck.pc # "idle"
    BY DEF Lookup, Apply, ApplyRefused, Reread, ApplyReconnect, Crash, Gathered
  <2>. QED BY <2>1, CheckAt DEF IInv
<1>2. CASE Lookup(k)
  <2>1. PICK answer \in {"present", "absent", "unknown"} :
          checker' = [checker EXCEPT ![k] =
            CASE ck.kind # "reconnect" -> [ck EXCEPT !.pc = "call", !.proof = answer]
              [] ck.kind = "reconnect" /\ answer = "present" -> [ck EXCEPT !.pc = "reconnect"]
              [] OTHER -> Idle]
    BY <1>2 DEF Lookup, Answers
  <2>2. [ck EXCEPT !.pc = "call", !.proof = answer] \in CheckRecord
    <3>. DEFINE x == [ck EXCEPT !.pc = "call"]
    <3>1. x \in CheckRecord
      BY <1>1, CheckUpdated
    <3>2. [x EXCEPT !.proof = answer] \in CheckRecord
      <4>. HIDE DEF x
      <4>. QED BY <3>1, CheckUpdated
    <3>. QED BY <3>2
  <2>3. [ck EXCEPT !.pc = "reconnect"] \in CheckRecord
    BY <1>1, CheckUpdated
  <2>. QED BY <2>1, <2>2, <2>3
<1>3. CASE Apply(k)
  <2>1. PICK d : checker' = [checker EXCEPT ![k] = AfterApply(ck, d, Unmoved(ck))]
    BY <1>3 DEF Apply
  <2>. DEFINE follow == {h \in Unmoved(ck) : dom[Slot(ck.org, h)].state = "verified"
                                             /\ d[Slot(ck.org, h)].state = "attach_pending"}
              seen == [h \in follow |-> ck.seen[h]]
              ev == [h \in follow |-> "none"]
  <2>2. follow \subseteq DOMAIN ck.seen
    BY DEF Unmoved, Still
  <2>3. SeenTyped(seen) /\ EvTyped(ev)
    <3>. HIDE DEF follow
    <3>. QED BY <1>1, <2>2 DEF SeenTyped, EvTyped
  <2>. HIDE DEF seen, ev
  <2>4. [ck EXCEPT !.pc = "reread", !.pass = 2, !.seen = seen, !.ev = ev] \in CheckRecord
    <3>. DEFINE x == [ck EXCEPT !.pc = "reread"]
                y == [x EXCEPT !.pass = 2]
                z == [y EXCEPT !.seen = seen]
    <3>1. x \in CheckRecord
      BY <1>1, CheckUpdated
    <3>2. y \in CheckRecord
      <4>. HIDE DEF x
      <4>. QED BY <3>1, CheckUpdated
    <3>3. z \in CheckRecord
      <4>. HIDE DEF y
      <4>. QED BY <2>3, <3>2, CheckUpdated
    <3>4. [z EXCEPT !.ev = ev] \in CheckRecord
      <4>. HIDE DEF z
      <4>. QED BY <2>3, <3>3, CheckUpdated
    <3>. QED BY <3>4
  <2>5. \/ AfterApply(ck, d, Unmoved(ck)) = Idle
        \/ AfterApply(ck, d, Unmoved(ck))
             = [ck EXCEPT !.pc = "reread", !.pass = 2, !.seen = seen, !.ev = ev]
    BY DEF AfterApply, seen, ev
  <2>. QED BY <2>1, <2>4, <2>5
<1>4. CASE Reread(k)
  <2>1. /\ Still(ck) \in SUBSET Open(dom, ck.org)
        /\ ck.kind \in {"check", "reconnect"} /\ ck.proof \in {"none", "present", "absent", "unknown"}
    BY <1>1, CheckTyped DEF Still
  <2>2. Check("call", ck.kind, ck.org, ck.claim, FALSE, 2, ck.proof, Still(ck)) \in CheckRecord
    <3>1. "call" \in {"lookup", "call", "reread", "reconnect"} /\ FALSE \in BOOLEAN /\ 2 \in {1, 2}
      OBVIOUS
    <3>. QED BY <1>1, <2>1, <3>1, CheckBuilt
  <2>3. checker' = [checker EXCEPT ![k] =
          IF Still(ck) = {} THEN Idle
          ELSE Check("call", ck.kind, ck.org, ck.claim, FALSE, 2, ck.proof, Still(ck))]
    BY <1>4 DEF Reread
  <2>. HIDE DEF ck
  <2>. QED BY <2>2, <2>3
<1>5. CASE ApplyRefused(k) \/ ApplyReconnect(k) \/ Crash(k)
  BY <1>5 DEF ApplyRefused, ApplyReconnect, Crash
<1>. QED BY <1>2, <1>3, <1>4, <1>5

LEMMA CallTyped ==
  ASSUME IInv, NEW k \in Checker, NEW h \in Host, AddDomain(k, h) \/ GetDomain(k, h) \/ RemoveDomain(k, h)
  PROVE  /\ \E x \in CheckRecord \cup {Idle} : checker' = [checker EXCEPT ![k] = x]
         /\ project' \subseteq Host
         /\ UNCHANGED <<dom, active, id, hold, txt>>
<1>. DEFINE ck == checker[k]
            E == {"none", "ok", "failed", "ack", "negative", "unknown", "missing"}
<1>1. ck \in CheckRecord /\ EvTyped(ck.ev)
  <2>1. ck.pc # "idle"
    BY DEF AddDomain, GetDomain, RemoveDomain, CallDue
  <2>. QED BY <2>1, CheckAt DEF IInv
<1>2. /\ \E e \in E : Learn(k, h, e)
      /\ project' \subseteq Host
      /\ UNCHANGED <<dom, active, id, hold, txt>>
  <2>1. CASE AddDomain(k, h)
    BY <2>1 DEF AddDomain, Probes, IInv, TypeOK
  <2>2. CASE GetDomain(k, h)
    BY <2>2 DEF GetDomain, Probes, IInv, TypeOK
  <2>3. CASE RemoveDomain(k, h)
    BY <2>3 DEF RemoveDomain, IInv, TypeOK
  <2>. QED BY <2>1, <2>2, <2>3
<1>3. PICK e \in E : Learn(k, h, e)
  BY <1>2
<1>. DEFINE ev == [ck.ev EXCEPT ![h] = e]
<1>4. EvTyped(ev)
  BY <1>1, <1>3 DEF EvTyped
<1>. HIDE DEF ev
<1>5. [ck EXCEPT !.ev = ev] \in CheckRecord
  <2>. HIDE DEF ck
  <2>. QED BY <1>1, <1>4, CheckUpdated
<1>6. checker' = [checker EXCEPT ![k] = [ck EXCEPT !.ev = ev]]
  BY <1>3 DEF Learn, ev
<1>. QED BY <1>2, <1>5, <1>6

LEMMA BeginTyped ==
  ASSUME IInv, NEW k \in Checker, NEW o \in Org, NEW c \in ClaimName,
         BeginSweep(k, o, c) \/ CheckNow(k, o, c) \/ BeginReconnect(k, o, c)
  PROVE  /\ \E x \in CheckRecord \cup {Idle} : checker' = [checker EXCEPT ![k] = x]
         /\ UNCHANGED <<dom, active, id, hold, txt, project>>
<1>1. PICK pc \in {"lookup", "call"}, kind \in {"check", "reconnect"}, closed \in BOOLEAN,
           hosts \in SUBSET Open(dom, o) :
        /\ checker' = [checker EXCEPT ![k] = Check(pc, kind, o, c, closed, 1, "none", hosts)]
        /\ UNCHANGED <<dom, active, id, hold, txt, project>>
  <2>1. ASSUME NEW closed \in BOOLEAN, NEW hosts \in SUBSET Open(dom, o), Begin(k, o, c, closed, hosts)
        PROVE  \E pc \in {"lookup", "call"} :
                 /\ checker' = [checker EXCEPT ![k] = Check(pc, "check", o, c, closed, 1, "none", hosts)]
                 /\ UNCHANGED <<dom, active, id, hold, txt, project>>
    BY <2>1 DEF Begin
  <2>2. CASE BeginSweep(k, o, c)
    <3>1. active[o] \in BOOLEAN
      BY DEF IInv, TypeOK, G!TypeOK
    <3>2. PICK hosts \in SUBSET (HostsOf(c) \cap Open(dom, o)) : Begin(k, o, c, ~active[o], hosts)
      BY <2>2 DEF BeginSweep
    <3>3. (~active[o]) \in BOOLEAN /\ hosts \in SUBSET Open(dom, o)
      BY <3>1
    <3>4. \E pc \in {"lookup", "call"} :
            /\ checker' = [checker EXCEPT ![k] = Check(pc, "check", o, c, ~active[o], 1, "none", hosts)]
            /\ UNCHANGED <<dom, active, id, hold, txt, project>>
      BY <2>1, <3>2, <3>3
    <3>. QED BY <3>3, <3>4
  <2>3. CASE CheckNow(k, o, c)
    <3>. DEFINE hosts == HostsOf(c) \cap Open(dom, o)
    <3>1. Begin(k, o, c, FALSE, hosts) /\ FALSE \in BOOLEAN /\ hosts \in SUBSET Open(dom, o)
      BY <2>3 DEF CheckNow
    <3>. HIDE DEF hosts
    <3>2. \E pc \in {"lookup", "call"} :
            /\ checker' = [checker EXCEPT ![k] = Check(pc, "check", o, c, FALSE, 1, "none", hosts)]
            /\ UNCHANGED <<dom, active, id, hold, txt, project>>
      BY <2>1, <3>1
    <3>. QED BY <3>1, <3>2
  <2>4. CASE BeginReconnect(k, o, c)
    <3>. DEFINE hosts == {h \in HostsOf(c) : dom[Slot(o, h)].state = "parked"}
    <3>1. hosts \in SUBSET Open(dom, o)
      BY DEF Open, HostsOf, G!NonTerminal, G!Holding
    <3>2. /\ checker' = [checker EXCEPT ![k] = Check("lookup", "reconnect", o, c, FALSE, 1, "none", hosts)]
          /\ UNCHANGED <<dom, active, id, hold, txt, project>>
      BY <2>4 DEF BeginReconnect
    <3>. HIDE DEF hosts
    <3>. QED BY <3>1, <3>2
  <2>. QED BY <2>2, <2>3, <2>4
<1>2. Check(pc, kind, o, c, closed, 1, "none", hosts) \in CheckRecord
  <2>1. /\ pc \in {"lookup", "call", "reread", "reconnect"} /\ 1 \in {1, 2}
        /\ "none" \in {"none", "present", "absent", "unknown"}
    OBVIOUS
  <2>. QED BY <2>1, CheckBuilt
<1>. QED BY <1>1, <1>2

(* The rows of a claim have the identity their slots are given.            *)
LEMMA ClaimIds ==
  ASSUME IInv, NEW o \in Org, NEW c \in ClaimName, ClaimDomain(o, c)
  PROVE  /\ id' \in [G!Key -> 0..MaxId]
         /\ IdsOK'
         /\ hold' \subseteq G!Key /\ txt' \subseteq Org \X ClaimName
         /\ UNCHANGED <<project, checker>>
<1>. DEFINE slots == {Slot(o, h) : h \in HostsOf(c) \ Open(dom, o)}
            f == [s \in slots |-> id[s] + 1]
<1>1. /\ id' = Written(id, f) /\ id \in [G!Key -> 0..MaxId]
      /\ \A s \in slots : s \in G!Key /\ id[s] < MaxId
  BY Keys DEF ClaimDomain, HostsOf, IInv, TypeOK
<1>2. \A s \in G!Key : dom'[s].state \in G!NonTerminal => dom[s].state \in G!NonTerminal \/ s \in slots
  BY ClaimAccepted
<1>3. \A s \in G!Key : dom[s].state \in G!NonTerminal => id[s] \in 1..MaxId
  BY DEF IInv, IdsOK
<1>4. hold' \subseteq G!Key /\ txt' \subseteq Org \X ClaimName /\ UNCHANGED <<project, checker>>
  BY DEF ClaimDomain, IInv, TypeOK
<1>. HIDE DEF slots
<1>5. /\ DOMAIN id' = G!Key /\ id' = [s \in G!Key |-> id'[s]]
      /\ \A s \in G!Key : id'[s] = IF s \in slots THEN id[s] + 1 ELSE id[s]
  BY <1>1 DEF Written
<1>6. \A s \in G!Key : id'[s] \in 0..MaxId /\ (s \in slots => id'[s] \in 1..MaxId)
  BY <1>1, <1>5, BoundAssumption
<1>7. id' \in [G!Key -> 0..MaxId]
  BY <1>5, <1>6
<1>8. IdsOK'
  BY <1>2, <1>3, <1>5, <1>6 DEF IdsOK
<1>. QED BY <1>4, <1>7, <1>8

LEMMA OthersTyped ==
  ASSUME IInv, TableStep, IdsOK', id' \in [G!Key -> 0..MaxId], hold' \subseteq G!Key,
         txt' \subseteq Org \X ClaimName, project' \subseteq Host,
         checker' = checker \/ \E k \in Checker, x \in CheckRecord \cup {Idle} :
                                checker' = [checker EXCEPT ![k] = x]
  PROVE  [G!Next]_(G!vars) /\ IInv'
<1>1. checker' \in [Checker -> CheckRecord \cup {Idle}]
  BY DEF IInv, TypeOK
<1>2. (CheckRecord = CheckRecord)' /\ (G!Key)' = G!Key
  OBVIOUS
<1>3. TypeOK'
  BY <1>1 DEF TypeOK, TableStep
<1>. QED BY <1>3 DEF IInv, TableStep

LEMMA IdsKept ==
  ASSUME IInv, UNCHANGED <<id, hold, txt>>,
         \A s \in G!Key : dom'[s].state \in G!NonTerminal => dom[s].state \in G!NonTerminal
  PROVE  /\ IdsOK' /\ id' \in [G!Key -> 0..MaxId] /\ hold' \subseteq G!Key
         /\ txt' \subseteq Org \X ClaimName
BY DEF IInv, TypeOK, IdsOK

LEMMA NextKeeps ==
  ASSUME IInv, [Next]_vars
  PROVE  [G!Next]_(G!vars) /\ IInv'
<1>0. project \subseteq Host
  BY DEF IInv, TypeOK
<1>1. ASSUME UNCHANGED <<dom, active, id, hold, txt>>, project' \subseteq Host,
             checker' = checker \/ \E k \in Checker, x \in CheckRecord \cup {Idle} :
                                    checker' = [checker EXCEPT ![k] = x]
      PROVE  [G!Next]_(G!vars) /\ IInv'
  <2>1. TableStep
    BY <1>1, TableLeft
  <2>2. /\ IdsOK' /\ id' \in [G!Key -> 0..MaxId] /\ hold' \subseteq G!Key
        /\ txt' \subseteq Org \X ClaimName
    BY <1>1, IdsKept
  <2>. QED BY <1>1, <2>1, <2>2, OthersTyped
<1>2. ASSUME NEW o \in Org, Kept(o), UNCHANGED <<id, hold, txt, project>>,
             checker' = checker \/ \E k \in Checker, x \in CheckRecord \cup {Idle} :
                                    checker' = [checker EXCEPT ![k] = x]
      PROVE  [G!Next]_(G!vars) /\ IInv'
  <2>1. TableStep
    BY <1>2, TransactionStep DEF Kept
  <2>2. /\ IdsOK' /\ id' \in [G!Key -> 0..MaxId] /\ hold' \subseteq G!Key
        /\ txt' \subseteq Org \X ClaimName
    BY <1>2, IdsKept DEF Kept
  <2>. QED BY <1>0, <1>2, <2>1, <2>2, OthersTyped
<1>3. ASSUME NEW k \in Checker, Apply(k) \/ ApplyReconnect(k) PROVE [G!Next]_(G!vars) /\ IInv'
  <2>1. \E x \in CheckRecord \cup {Idle} : checker' = [checker EXCEPT ![k] = x]
    BY <1>3, AdvanceTyped
  <2>2. UNCHANGED <<active, id, hold, txt, project>> /\ checker[k].pc # "idle"
    BY <1>3 DEF Apply, ApplyReconnect, Gathered
  <2>3. checker[k].org \in Org
    BY <2>2, CheckAt DEF IInv
  <2>4. CASE Kept(checker[k].org)
    BY <1>2, <2>1, <2>2, <2>3, <2>4
  <2>5. CASE ~Kept(checker[k].org)
    <3>1. dom' = dom
      BY <1>3, <2>5, ApplyKept, ApplyReconnectKept
    <3>. QED BY <1>0, <1>1, <2>1, <2>2, <3>1
  <2>. QED BY <2>4, <2>5
<1>4. ASSUME NEW k \in Checker, Lookup(k) \/ ApplyRefused(k) \/ Reread(k) \/ Crash(k)
      PROVE  [G!Next]_(G!vars) /\ IInv'
  <2>1. \E x \in CheckRecord \cup {Idle} : checker' = [checker EXCEPT ![k] = x]
    BY <1>4, AdvanceTyped
  <2>2. UNCHANGED <<dom, active, id, hold, txt, project>>
    BY <1>4 DEF Lookup, ApplyRefused, Reread, Crash
  <2>. QED BY <1>0, <1>1, <2>1, <2>2
<1>5. ASSUME NEW k \in Checker, NEW h \in Host, AddDomain(k, h) \/ GetDomain(k, h) \/ RemoveDomain(k, h)
      PROVE  [G!Next]_(G!vars) /\ IInv'
  BY <1>1, <1>5, CallTyped
<1>6. ASSUME NEW k \in Checker, NEW o \in Org, NEW c \in ClaimName,
             BeginSweep(k, o, c) \/ CheckNow(k, o, c) \/ BeginReconnect(k, o, c)
      PROVE  [G!Next]_(G!vars) /\ IInv'
  BY <1>0, <1>1, <1>6, BeginTyped
<1>7. ASSUME NEW o \in Org, NEW c \in ClaimName, ClaimDomain(o, c)
      PROVE  [G!Next]_(G!vars) /\ IInv'
  <2>1. TableStep
    BY <1>7, ClaimAccepted, TransactionStep
  <2>2. /\ id' \in [G!Key -> 0..MaxId] /\ IdsOK'
        /\ hold' \subseteq G!Key /\ txt' \subseteq Org \X ClaimName /\ UNCHANGED <<project, checker>>
    BY <1>7, ClaimIds
  <2>. QED BY <1>0, <2>1, <2>2, OthersTyped
<1>8. ASSUME NEW o \in Org, NEW c \in ClaimName, RemoveClaim(o, c)
      PROVE  [G!Next]_(G!vars) /\ IInv'
  <2>1. UNCHANGED <<id, hold, txt, project, checker>>
    BY <1>8 DEF RemoveClaim
  <2>. QED BY <1>2, <1>8, <2>1, RemoveClaimKept
<1>9. ASSUME NEW o \in Org, NEW h \in Host, ChangeCanonical(o, h) \/ ForceRelease(o, h)
      PROVE  [G!Next]_(G!vars) /\ IInv'
  <2>1. UNCHANGED <<id, hold, txt, project, checker>>
    BY <1>9 DEF ChangeCanonical, ForceRelease
  <2>. QED BY <1>2, <1>9, <2>1, ChangeCanonicalKept, ForceReleaseKept
<1>10. ASSUME NEW o \in Org, NEW c \in ClaimName, Publish(o, c)
       PROVE  [G!Next]_(G!vars) /\ IInv'
  <2>1. UNCHANGED <<dom, active, id, hold, project, checker>> /\ txt' \subseteq Org \X ClaimName
    BY <1>10 DEF Publish, IInv, TypeOK
  <2>2. TableStep /\ IdsOK'
    BY <2>1, TableLeft DEF IInv, IdsOK
  <2>. QED BY <2>1, <2>2, OthersTyped DEF IInv, TypeOK
<1>11. ASSUME NEW o \in Org, NEW h \in Host, SetDomainHold(o, h)
       PROVE  [G!Next]_(G!vars) /\ IInv'
  <2>1. UNCHANGED <<dom, active, id, txt, project, checker>> /\ hold' \subseteq G!Key
    BY <1>11, Keys DEF SetDomainHold, Open, IInv, TypeOK
  <2>2. TableStep /\ IdsOK'
    BY <2>1, TableLeft DEF IInv, IdsOK
  <2>. QED BY <2>1, <2>2, OthersTyped DEF IInv, TypeOK
<1>12. ASSUME NEW o \in Org, NEW h \in Host, Clock(o, h)
       PROVE  [G!Next]_(G!vars) /\ IInv'
  <2>1. UNCHANGED <<id, hold, txt, project, checker>>
    BY <1>12 DEF Clock
  <2>2. TableStep /\ \A s \in G!Key : dom'[s].state = dom[s].state
    BY <1>12, ClockStep
  <2>3. /\ IdsOK' /\ id' \in [G!Key -> 0..MaxId] /\ hold' \subseteq G!Key
        /\ txt' \subseteq Org \X ClaimName
    BY <2>1, <2>2, IdsKept
  <2>. QED BY <1>0, <2>1, <2>2, <2>3, OthersTyped
<1>13. ASSUME NEW o \in Org, LifecycleEvent(o)
       PROVE  [G!Next]_(G!vars) /\ IInv'
  <2>1. UNCHANGED <<id, hold, txt, project, checker>>
    BY <1>13 DEF LifecycleEvent
  <2>2. TableStep /\ dom' = dom
    BY <1>13, LifecycleStep
  <2>3. /\ IdsOK' /\ id' \in [G!Key -> 0..MaxId] /\ hold' \subseteq G!Key
        /\ txt' \subseteq Org \X ClaimName
    BY <2>1, <2>2, IdsKept
  <2>. QED BY <1>0, <2>1, <2>2, <2>3, OthersTyped
<1>14. ASSUME NEW h \in Host, ProviderDrops(h)
       PROVE  [G!Next]_(G!vars) /\ IInv'
  BY <1>0, <1>1, <1>14 DEF ProviderDrops
<1>15. CASE UNCHANGED vars
  BY <1>0, <1>1, <1>15 DEF vars
<1>. QED
  BY <1>3, <1>4, <1>5, <1>6, <1>7, <1>8, <1>9, <1>10, <1>11, <1>12, <1>13, <1>14, <1>15
     DEF Next, Advance

LEMMA InitKept == Init => IInv /\ G!Init
<1>. SUFFICES ASSUME Init PROVE IInv
  BY DEF Init
<1>1. /\ dom = [k \in G!Key |-> G!NoRow] /\ active = [o \in Org |-> TRUE]
      /\ id = [s \in G!Key |-> 0] /\ hold = {} /\ txt = {} /\ project = {}
      /\ checker = [k \in Checker |-> Idle]
  BY DEF Init, G!Init
<1>2. /\ G!NoRow \in G!Row /\ RowOK(G!NoRow) /\ LeftAlias(G!NoRow)
      /\ G!NoRow.state \notin G!NonTerminal
  BY DEF G!NoRow, G!Row, G!State, G!NonTerminal, G!Holding, G!Cause, G!ForcedCause, G!Grace, G!Exit,
         RowOK, LeftAlias
<1>3. TypeOK /\ Rows /\ IdsOK
  BY <1>1, <1>2, BoundAssumption DEF TypeOK, G!TypeOK, Rows, IdsOK
<1>4. \A o \in Org, h \in Host : dom[Slot(o, h)].state \notin G!NonTerminal
  BY <1>1, <1>2, Keys
<1>5. \A o \in Org : Open(dom, o) = {} /\ Canonicals(dom, o) = {}
  BY <1>4 DEF Open, Canonicals
<1>6. OneHolderEach
  BY <1>4 DEF OneHolderEach, G!NonTerminal
<1>7. OneEach
  BY <1>5 DEF OneEach
<1>8. Capped
  BY <1>5, FS_EmptySet, BoundAssumption DEF Capped
<1>. QED BY <1>3, <1>6, <1>7, <1>8, IndexesAre DEF IInv

-------------------------------------------------------------------------------
(* Theorems *)

(* The invariant the others follow from.                                   *)
THEOREM Inductive == Spec => []IInv
<1>1. Init => IInv
  BY InitKept
<1>2. IInv /\ [Next]_vars => IInv'
  BY NextKeeps
<1>. QED BY <1>1, <1>2, PTL DEF Spec

(* Every variable has its type, the records of the checks included: what a *)
(* check saw was a row that was not over, under an identity it had then.   *)
THEOREM Typing == Spec => []TypeOK
BY Inductive, PTL DEF IInv

(* The service implements the database's specification: every write of     *)
(* transitionDomain, claimDomain, removeClaim, ensureCanonical and the     *)
(* rest, applied to rows read again under lock after answers that may be   *)
(* late, is one the triggers, the indexes and the cap accept.              *)
THEOREM WritesAcceptedHolds == Spec => WritesAccepted
<1>1. Init => G!Init
  BY InitKept
<1>2. IInv /\ [Next]_vars => [G!Next]_(G!vars)
  BY NextKeeps
<1>. QED BY <1>1, <1>2, Inductive, PTL DEF Spec, WritesAccepted, G!Spec

(* A removal or a force-release gives the canonical role back, and nothing *)
(* later - a check in flight, ensureCanonical, a reconnection - gives it   *)
(* to a row that is parked or waits for its detach.                        *)
THEOREM ParkedNeverCanonicalHolds == Spec => []ParkedNeverCanonical
<1>1. IInv => ParkedNeverCanonical
  BY DEF IInv, Rows, LeftAlias, ParkedNeverCanonical
<1>. QED BY <1>1, Inductive, PTL

(* What DomainGuards promises of each row is so of the service's rows: a   *)
(* release that nobody forced has waited for the whole grace, every row    *)
(* that is suspended has a deadline, and cause and reason agree with the   *)
(* state, whatever checks overlap (applyRow, removeClaim,                  *)
(* forceReleaseDomain, reconnectClaim).                                    *)
THEOREM EvidenceInService == Spec => []G!Evidence
<1>1. IInv => G!Evidence
  BY DEF IInv, Rows, RowOK, G!Evidence, G!ForcedByReasonOnly, G!NoEarlyRelease, G!GraceOnSuspended,
         G!CauseOnExit
<1>. QED BY <1>1, Inductive, PTL

(* One host, one holder; one canonical host at most; never more names than *)
(* the cap: at every moment, not only where a write is checked.            *)
THEOREM IndexesInService == Spec => []G!Indexes
BY Inductive, PTL DEF IInv

LEMMA GraceStep ==
  ASSUME IInv, [G!Next]_(G!vars), NEW s \in G!Key, dom[s].grace = "over", dom'[s].grace # "over"
  PROVE  dom'[s].grace = "none" /\ dom'[s].state \in {"verified", "pending"}
<1>0. dom \in [G!Key -> G!Row] /\ dom[s] \in G!Row /\ RowOK(dom[s]) /\ G!PurposeOf(s) = "web"
  BY Keys DEF IInv, TypeOK, G!TypeOK, Rows
<1>1. ASSUME NEW o \in Org, G!Transaction(o)
      PROVE  dom'[s].grace = "none" /\ dom'[s].state \in {"verified", "pending"}
  <2>1. CASE G!InsertAccepted("web", dom[s], dom'[s])
    BY <2>1 DEF G!InsertAccepted, G!Inserted, G!NoRow
  <2>2. CASE G!UpdateAccepted("web", dom[s], dom'[s], active[o])
    <3>0. dom'[s] \in G!Row
      BY <1>1 DEF G!Transaction
    <3>1. dom'[s].state # dom[s].state
      BY <1>0, <2>2, <3>0 DEF G!UpdateAccepted, G!Stamped, G!Row
    <3>2. G!LegalEdge("web", dom[s].state, dom'[s].state)
      BY <2>2, <3>1 DEF G!UpdateAccepted
    <3>3. \/ dom'[s].state = "verified" /\ dom'[s].grace = "none"
          \/ dom'[s].state \in {"lapsed", "parked"} /\ dom[s].state # "lapsed"
      BY <1>0, <2>2, <3>0, <3>1 DEF G!UpdateAccepted, G!Stamped, G!Row
    <3>4. dom[s].state \in {"lapsed", "parked", "release_pending", "released"}
      BY <1>0 DEF RowOK
    <3>5. ~(dom'[s].state \in {"lapsed", "parked"} /\ dom[s].state # "lapsed")
      BY <3>1, <3>2, <3>4 DEF G!LegalEdge, G!BothEdges, G!WebEdges
    <3>. QED BY <3>3, <3>5
  <2>. QED BY <1>0, <1>1, <2>1, <2>2 DEF G!Transaction
<1>2. ASSUME NEW x \in G!Key, G!GraceRunsOut(x) \/ G!ExpiryPasses(x) PROVE FALSE
  <2>1. dom[x] \in G!Row
    BY <1>0
  <2>2. [dom[x] EXCEPT !.grace = "over"].grace = "over" /\ [dom[x] EXCEPT !.expired = TRUE].grace = dom[x].grace
    BY <2>1 DEF G!Row
  <2>. QED BY <1>0, <1>2, <2>2 DEF G!GraceRunsOut, G!ExpiryPasses
<1>3. ASSUME NEW o \in Org, G!LifecycleEvent(o) PROVE FALSE
  BY <1>3 DEF G!LifecycleEvent
<1>. QED BY <1>1, <1>2, <1>3 DEF G!Next, G!vars

(* A grace that has run out is not started again by any of the ways a row  *)
(* is suspended: only a fresh proof, a reconnection or a new claim clears  *)
(* it.                                                                     *)
THEOREM GraceNeverRestartsInService == Spec => G!GraceNeverRestarts
<1>1. IInv /\ [Next]_vars =>
        [\A k \in G!Key : dom[k].grace = "over" /\ dom'[k].grace # "over"
            => dom'[k].grace = "none" /\ dom'[k].state \in {"verified", "pending"}]_(G!vars)
  BY NextKeeps, GraceStep
<1>. QED BY <1>1, Inductive, PTL DEF Spec, G!GraceNeverRestarts, G!vars

-------------------------------------------------------------------------------
(* Orphans: which rows a step moves, and along which edges.                *)

LEMMA RoleOnly ==
  ASSUME NEW w \in [G!Key -> G!Row], NEW s \in G!Key, NEW n, n = [w EXCEPT ![s].role = "canonical"]
  PROVE  \A x \in G!Key : n[x].state = w[x].state
<1>1. w[s] \in G!Row
  OBVIOUS
<1>2. [w[s] EXCEPT !.role = "canonical"].state = w[s].state
  BY <1>1 DEF G!Row
<1>. QED BY <1>2

(* A state changes along an edge of state.ts, or the row is a new claim.   *)
LEMMA EdgesOnly ==
  ASSUME IInv, [G!Next]_(G!vars), NEW s \in G!Key
  PROVE  \/ dom'[s].state = dom[s].state
         \/ G!LegalEdge("web", dom[s].state, dom'[s].state)
         \/ dom[s].state \notin G!NonTerminal /\ dom'[s].state = "pending"
<1>1. dom \in [G!Key -> G!Row]
  BY DEF IInv, TypeOK, G!TypeOK
<1>2. ASSUME NEW o \in Org, G!Transaction(o)
      PROVE  \/ dom'[s].state = dom[s].state
             \/ G!LegalEdge("web", dom[s].state, dom'[s].state)
             \/ dom[s].state \notin G!NonTerminal /\ dom'[s].state = "pending"
  <2>1. G!PurposeOf(s) = "web"
    BY Keys
  <2>2. \A role : G!Inserted(role).state = "pending"
    BY DEF G!Inserted, G!NoRow
  <2>3. \/ dom'[s] = dom[s]
        \/ G!InsertAccepted("web", dom[s], dom'[s])
        \/ G!UpdateAccepted("web", dom[s], dom'[s], active[o])
    BY <1>2, <2>1 DEF G!Transaction
  <2>4. CASE G!InsertAccepted("web", dom[s], dom'[s])
    BY <2>2, <2>4 DEF G!InsertAccepted
  <2>5. CASE G!UpdateAccepted("web", dom[s], dom'[s], active[o])
    BY <2>5 DEF G!UpdateAccepted
  <2>. QED BY <2>3, <2>4, <2>5
<1>3. ASSUME NEW x \in G!Key, G!GraceRunsOut(x) \/ G!ExpiryPasses(x) PROVE dom'[s].state = dom[s].state
  <2>1. dom[x] \in G!Row
    BY <1>1
  <2>2. [dom[x] EXCEPT !.grace = "over"].state = dom[x].state /\ [dom[x] EXCEPT !.expired = TRUE].state = dom[x].state
    BY <2>1 DEF G!Row
  <2>. QED BY <1>1, <1>3, <2>2 DEF G!GraceRunsOut, G!ExpiryPasses
<1>. QED BY <1>2, <1>3 DEF G!Next, G!LifecycleEvent, G!vars

LEMMA Leaving ==
  \A from \in G!State, to \in G!State : G!LegalEdge("web", from, to) =>
    /\ from \in G!Holding /\ to \notin G!Holding
         => to = "released" /\ from \in {"verified", "release_pending"}
    /\ from \in G!Holding \ {"verified"} =>
         to \in G!Holding \ {"verified"} \/ to = "verified" \/ from = "release_pending"
BY DEF G!LegalEdge, G!BothEdges, G!WebEdges, G!State, G!NonTerminal, G!Holding, G!Terminal

(* Nothing but a check brings a row back to verified or ends its release.  *)
Quiet ==
  \A s \in G!Key : dom'[s].state # dom[s].state =>
    dom'[s].state # "verified" /\ dom[s].state # "release_pending"

LEMMA RemoveQuiet ==
  ASSUME IInv, NEW o \in Org, NEW c \in ClaimName, RemoveClaim(o, c)
  PROVE  Quiet
<1>. DEFINE hosts == {h \in HostsOf(c) \cap Open(dom, o) :
                        dom[Slot(o, h)].state \notin {"parked", "release_pending"}}
            elsewhere == LiveUnheld(dom, o) \ HostsOf(c)
            f == [s \in {Slot(o, h) : h \in hosts} |-> Removed(dom[s], "removed")]
            w == Written(dom, f)
<1>1. G!TypeOK /\ Rows /\ dom \in [G!Key -> G!Row]
  BY DEF IInv, TypeOK, G!TypeOK
<1>2. dom' = w \/ \E g \in elsewhere : dom' = [w EXCEPT ![Slot(o, g)].role = "canonical"]
  BY DEF RemoveClaim
<1>3. ASSUME NEW h \in hosts
      PROVE  /\ Removed(dom[Slot(o, h)], "removed") \in G!Row
             /\ Removed(dom[Slot(o, h)], "removed").state \in {"released", "parked"}
             /\ dom[Slot(o, h)].state # "release_pending"
  <2>1. /\ h \in Host /\ dom[Slot(o, h)].state \in G!NonTerminal \ {"parked", "release_pending"}
    BY DEF Open
  <2>2. dom[Slot(o, h)] \in G!Row /\ RowOK(dom[Slot(o, h)]) /\ active[o] \in BOOLEAN
    BY <1>1, <2>1, RowAt
  <2>3. "removed" \in {"removed", "org_closed"}
    OBVIOUS
  <2>. HIDE DEF hosts
  <2>. QED BY <2>1, <2>2, <2>3, RemovedReached DEF Reached, Fine
<1>4. ASSUME NEW s \in G!Key
      PROVE  /\ w[s] \in G!Row
             /\ w[s].state # dom[s].state => w[s].state # "verified" /\ dom[s].state # "release_pending"
  <2>1. CASE s \in DOMAIN f
    <3>1. PICK h \in hosts : s = Slot(o, h)
      BY <2>1
    <3>2. w[s] = Removed(dom[Slot(o, h)], "removed")
      BY <1>1, <2>1, <3>1 DEF Written
    <3>. HIDE DEF w, hosts
    <3>. QED BY <1>3, <3>1, <3>2
  <2>2. CASE s \notin DOMAIN f
    <3>1. w[s] = dom[s]
      BY <1>1, <2>2 DEF Written
    <3>. QED BY <1>1, <3>1
  <2>. QED BY <2>1, <2>2
<1>5. w \in [G!Key -> G!Row]
  <2>1. DOMAIN w = G!Key /\ w = [s \in G!Key |-> w[s]]
    BY <1>1 DEF Written
  <2>. HIDE DEF w
  <2>. QED BY <1>4, <2>1
<1>6. \A g \in elsewhere : Slot(o, g) \in G!Key
  BY Keys DEF LiveUnheld, Open
<1>. HIDE DEF w, elsewhere
<1>7. \A s \in G!Key : dom'[s].state = w[s].state
  <2>1. \A g \in elsewhere : \A n : n = [w EXCEPT ![Slot(o, g)].role = "canonical"]
            => \A s \in G!Key : n[s].state = w[s].state
    BY <1>5, <1>6, RoleOnly
  <2>. QED BY <1>2, <2>1
<1>. QED BY <1>4, <1>7 DEF Quiet

LEMMA CanonicalQuiet ==
  ASSUME IInv, NEW o \in Org, NEW h \in Host, ChangeCanonical(o, h)
  PROVE  Quiet
<1>. DEFINE f == [s \in {Slot(o, g) : g \in Canonicals(dom, o)} |-> Demoted(dom[s])]
            w == Written(dom, f)
<1>1. dom \in [G!Key -> G!Row] /\ Slot(o, h) \in G!Key
  BY Keys DEF IInv, TypeOK, G!TypeOK
<1>2. dom' = [w EXCEPT ![Slot(o, h)].role = "canonical"]
  BY DEF ChangeCanonical
<1>3. \A r \in G!Row : Demoted(r) \in G!Row /\ Demoted(r).state = r.state
  BY DEF Demoted, G!Row
<1>4. ASSUME NEW s \in G!Key PROVE w[s] \in G!Row /\ w[s].state = dom[s].state
  <2>1. w[s] = Demoted(dom[s]) \/ w[s] = dom[s]
    BY <1>1 DEF Written
  <2>. HIDE DEF w
  <2>. QED BY <1>1, <1>3, <2>1
<1>5. w \in [G!Key -> G!Row]
  <2>1. DOMAIN w = G!Key /\ w = [s \in G!Key |-> w[s]]
    BY <1>1 DEF Written
  <2>. HIDE DEF w
  <2>. QED BY <1>4, <2>1
<1>. HIDE DEF w
<1>6. \A s \in G!Key : dom'[s].state = w[s].state
  <2>1. \A n : n = [w EXCEPT ![Slot(o, h)].role = "canonical"] => \A s \in G!Key : n[s].state = w[s].state
    BY <1>1, <1>5, RoleOnly
  <2>. QED BY <1>2, <2>1
<1>. QED BY <1>4, <1>6 DEF Quiet

LEMMA ForceQuiet ==
  ASSUME IInv, NEW o \in Org, NEW h \in Host, ForceRelease(o, h)
  PROVE  Quiet
<1>1. PICK cause \in G!ForcedCause :
        dom' = [dom EXCEPT ![Slot(o, h)] = Demoted(Transition(@, "force_release", cause))]
  BY DEF ForceRelease
<1>. DEFINE r == dom[Slot(o, h)]  t == Demoted(Transition(r, "force_release", cause))
<1>2. /\ r \in G!Row /\ RowOK(r) /\ active[o] \in BOOLEAN /\ dom \in [G!Key -> G!Row]
      /\ Slot(o, h) \in G!Key
  BY RowAt, Keys DEF IInv, TypeOK, G!TypeOK
<1>3. r.state \in G!NonTerminal \ {"release_pending"}
  BY DEF ForceRelease, Open
<1>4. cause \in G!Cause /\ "force_release" \in {"remove", "force_release"}
  BY DEF G!Cause
<1>5. Fits("force_release", r, cause, active[o])
  BY <1>3 DEF Fits
<1>6. t.state = NextState(r.state, "force_release")
  <2>. HIDE DEF r
  <2>. QED BY <1>2, <1>4, <1>5, ExitReached
<1>7. t.state # "verified"
  BY <1>6 DEF NextState
<1>8. dom'[Slot(o, h)] = t /\ \A s \in G!Key \ {Slot(o, h)} : dom'[s] = dom[s]
  <2>1. dom' = [dom EXCEPT ![Slot(o, h)] = t]
    BY <1>1
  <2>. HIDE DEF t
  <2>. QED BY <1>2, <2>1
<1>. HIDE DEF t
<1>. QED BY <1>3, <1>7, <1>8 DEF Quiet

LEMMA ClaimQuiet ==
  ASSUME IInv, NEW o \in Org, NEW c \in ClaimName, ClaimDomain(o, c)
  PROVE  Quiet
<1>1. G!Transaction(o)
  BY ClaimAccepted
<1>. DEFINE missing == HostsOf(c) \ Open(dom, o)
<1>2. \A s \in G!Key : \A h \in Host : s = Slot(o, h) /\ h \in missing => dom[s].state # "release_pending"
  BY DEF Open, G!NonTerminal, G!Holding
<1>3. ASSUME NEW s \in G!Key
      PROVE  dom'[s] = dom[s] \/ \E h \in missing : s = Slot(o, h) /\ dom'[s].state = "pending"
  <2>1. dom \in [G!Key -> G!Row]
    BY DEF IInv, TypeOK, G!TypeOK
  <2>2. PICK designated \in HostsOf(c) :
          LET role(h) == IF Canonicals(dom, o) = {} /\ h = designated THEN "canonical" ELSE "alias"
          IN dom' = Written(dom, [x \in {Slot(o, h) : h \in missing} |-> G!Inserted(role(x[2]))])
    BY DEF ClaimDomain
  <2>. DEFINE role(h) == IF Canonicals(dom, o) = {} /\ h = designated THEN "canonical" ELSE "alias"
              f == [x \in {Slot(o, h) : h \in missing} |-> G!Inserted(role(x[2]))]
  <2>3. dom' = Written(dom, f)
    BY <2>2
  <2>4. s \in DOMAIN f => (\E h \in missing : s = Slot(o, h)) /\ f[s].state = "pending"
    <3>1. \A x : G!Inserted(x).state = "pending"
      BY DEF G!Inserted, G!NoRow
    <3>2. s \in DOMAIN f => f[s] = G!Inserted(role(s[2])) /\ \E h \in missing : s = Slot(o, h)
      OBVIOUS
    <3>. HIDE DEF f, role
    <3>. QED BY <3>1, <3>2
  <2>. HIDE DEF f, missing
  <2>5. dom'[s] = IF s \in DOMAIN f THEN f[s] ELSE dom[s]
    BY <2>1, <2>3 DEF Written
  <2>. QED BY <2>4, <2>5
<1>4. \A h \in missing : dom[Slot(o, h)].state # "release_pending"
  BY DEF HostsOf, Open, G!NonTerminal, G!Holding
<1>. HIDE DEF missing
<1>. QED BY <1>3, <1>4 DEF Quiet

-------------------------------------------------------------------------------
(* What a check may do to a row.                                           *)

(* A check that ends a release has seen the provider let go.               *)
LEMMA ApplyStates ==
  ASSUME IInv, NEW k \in Checker, Apply(k), NEW s \in G!Key, dom'[s].state # dom[s].state
  PROVE  \E h \in Unmoved(checker[k]) :
           /\ s = Slot(checker[k].org, h)
           /\ dom[s].state = "release_pending" => checker[k].ev[h] = "ok"
<1>. DEFINE ck == checker[k]  o == ck.org  hosts == Unmoved(ck)
<1>1. /\ Gathered(ck) /\ active' = active
      /\ ck.closed /\ active[o] => \A h \in hosts : ~ClosesRow(ck, h)
  BY DEF Apply
<1>2. PICK f : /\ DOMAIN f = {Slot(o, h) : h \in hosts}
               /\ \A h \in hosts : f[Slot(o, h)] \in Outcomes(ck, h)
               /\ dom' \in EnsureCanonical(Written(dom, f), o, Still(ck))
  BY DEF Apply
<1>3. o \in Org /\ dom \in [G!Key -> G!Row]
  BY <1>1, CheckAt DEF IInv, Gathered, TypeOK, G!TypeOK
<1>4. hosts \in SUBSET Host /\ hosts \subseteq Open(dom, o)
  BY DEF Unmoved, Still, Open
<1>5. ASSUME NEW h \in hosts
      PROVE  /\ Reached(dom[Slot(o, h)], f[Slot(o, h)], active[o])
             /\ f[Slot(o, h)].state \in G!Holding /\ dom[Slot(o, h)].state \notin G!Holding
                => ~HeldElsewhere(o, h)
  <2>1. ClosesRow(ck, h) => ~active[o]
    BY <1>1 DEF ClosesRow
  <2>2. f[Slot(o, h)] \in Outcomes(ck, h)
    BY <1>2
  <2>. QED BY <1>1, <2>1, <2>2, OutcomeReached DEF IInv
<1>. DEFINE w == Written(dom, f)
<1>6. /\ Good(o, w)
      /\ \A h \in hosts : w[Slot(o, h)] = f[Slot(o, h)]
      /\ \A h \in Host \ hosts : w[Slot(o, h)] = dom[Slot(o, h)]
  BY <1>2, <1>3, <1>4, <1>5, GoodWritten DEF IInv, TypeOK
<1>. HIDE DEF w
<1>7. dom'[s].state = w[s].state
  <2>1. w \in [G!Key -> G!Row]
    BY <1>6 DEF Good
  <2>2. dom' = w \/ \E g \in LiveUnheld(w, o) : dom' = [w EXCEPT ![Slot(o, g)].role = "canonical"]
    BY <1>2 DEF EnsureCanonical, w
  <2>3. \A g \in LiveUnheld(w, o) : Slot(o, g) \in G!Key
    BY <1>3, Keys DEF LiveUnheld, Open
  <2>4. \A g \in LiveUnheld(w, o) : \A n : n = [w EXCEPT ![Slot(o, g)].role = "canonical"]
            => \A x \in G!Key : n[x].state = w[x].state
    BY <2>1, <2>3, RoleOnly
  <2>. QED BY <2>2, <2>4
<1>8. s = Slot(s[1], s[2]) /\ s[1] \in Org /\ s[2] \in Host
  BY Keys
<1>9. s[1] = o
  <2>1. s[1] # o => w[s] = dom[s]
    BY <1>6, <1>8 DEF Good
  <2>. QED BY <1>7, <2>1
<1>. DEFINE h == s[2]
<1>10. h \in hosts /\ s = Slot(o, h)
  BY <1>6, <1>7, <1>8, <1>9
<1>11. ASSUME dom[s].state = "release_pending" PROVE ck.ev[h] = "ok"
  <2>1. ck.seen[h].state = "release_pending"
    BY <1>10, <1>11 DEF Unmoved
  <2>2. ~ClosesRow(ck, h)
    BY <2>1 DEF ClosesRow
  <2>3. f[s] \in ApplyRow(o, h, dom[s], ck.proof, ck.ev[h])
    BY <1>2, <1>10, <2>2 DEF Outcomes
  <2>4. f[s] = dom[s] \/ ck.ev[h] = "ok"
    <3>. HIDE DEF ck, o, h
    <3>. QED BY <1>11, <2>3 DEF ApplyRow
  <2>5. f[s].state # dom[s].state
    BY <1>6, <1>7, <1>10
  <2>. QED BY <2>4, <2>5
<1>. QED BY <1>10, <1>11

(* A reconnection moves parked rows.                                       *)
LEMMA ReconnectStates ==
  ASSUME IInv, NEW k \in Checker, ApplyReconnect(k), NEW s \in G!Key, dom'[s].state # dom[s].state
  PROVE  dom[s].state = "parked"
<1>. DEFINE ck == checker[k]
            parked == {Slot(ck.org, h) : h \in {g \in HostsOf(ck.claim) : dom[Slot(ck.org, g)].state = "parked"}}
<1>1. dom \in [G!Key -> G!Row]
  BY DEF IInv, TypeOK, G!TypeOK
<1>2. dom' = Written(dom, [x \in parked |-> Transition(dom[x], "reconnect", "none")])
  BY DEF ApplyReconnect
<1>3. s \notin parked => dom'[s] = dom[s]
  <2>. HIDE DEF parked
  <2>. QED BY <1>1, <1>2 DEF Written
<1>. QED BY <1>3

-------------------------------------------------------------------------------
(* One check at a time                                                     *)

(* What a check in flight relies on: a row it saw attached, or on its way  *)
(* out, is still one the provider may hold the host for, and a detach it   *)
(* was told of has taken place.                                            *)
Serving == G!Holding \ {"verified"}

Relied(ck) ==
  /\ DOMAIN ck.ev = DOMAIN ck.seen
  /\ \A h \in DOMAIN ck.seen :
       /\ ck.seen[h].state \in Serving => dom[Slot(ck.org, h)].state \in Serving
       /\ ck.seen[h].state = "release_pending" /\ ck.ev[h] = "ok" => h \notin project

FlightInv == \A k \in Checker : checker[k].pc # "idle" => Relied(checker[k])

LEMMA ReliedStays ==
  ASSUME IInv, IInv', [G!Next]_(G!vars), FlightInv, Quiet, project' \subseteq project, checker' = checker
  PROVE  FlightInv'
<1>. SUFFICES ASSUME NEW k \in Checker, checker[k].pc # "idle" PROVE Relied(checker[k])'
  BY DEF FlightInv
<1>. DEFINE ck == checker[k]
<1>1. Relied(ck) /\ ck.org \in Org /\ DOMAIN ck.seen \subseteq Host
  BY CheckAt DEF FlightInv, IInv, SeenTyped
<1>2. ASSUME NEW s \in G!Key, dom[s].state \in Serving PROVE dom'[s].state \in Serving
  <2>1. dom[s].state \in G!State /\ dom'[s].state \in G!State
    BY DEF IInv, TypeOK, G!TypeOK, G!Row
  <2>. QED BY <1>2, <2>1, EdgesOnly, Leaving DEF Quiet, Serving, G!NonTerminal
<1>3. \A h \in Host : Slot(ck.org, h) \in G!Key
  BY <1>1, Keys
<1>4. ck' = ck
  OBVIOUS
<1>. HIDE DEF ck
<1>5. Relied(ck)'
  BY <1>1, <1>2, <1>3, <1>4 DEF Relied
<1>. QED BY <1>5 DEF ck

(* The only check in flight becomes x.                                     *)
LEMMA FlightOne ==
  ASSUME TypeOK, \A j, l \in Checker : j = l, NEW k \in Checker, NEW x,
         checker' = [checker EXCEPT ![k] = x], x.pc # "idle" => Relied(x)'
  PROVE  FlightInv'
<1>1. \A j \in Checker : checker'[j] = x
  BY DEF TypeOK
<1>. QED BY <1>1 DEF FlightInv, Relied

LEMMA BeginRelied ==
  ASSUME IInv, NEW k \in Checker, NEW o \in Org, NEW c \in ClaimName,
         BeginSweep(k, o, c) \/ CheckNow(k, o, c) \/ BeginReconnect(k, o, c)
  PROVE  \E x : checker' = [checker EXCEPT ![k] = x] /\ Relied(x)
<1>1. PICK pc, kind, closed, hosts :
        checker' = [checker EXCEPT ![k] = Check(pc, kind, o, c, closed, 1, "none", hosts)]
  <2>1. ASSUME NEW closed, NEW hosts, Begin(k, o, c, closed, hosts)
        PROVE  \E pc : checker' = [checker EXCEPT ![k] = Check(pc, "check", o, c, closed, 1, "none", hosts)]
    BY <2>1 DEF Begin
  <2>2. CASE \E closed, hosts : Begin(k, o, c, closed, hosts)
    BY <2>1, <2>2
  <2>3. CASE BeginReconnect(k, o, c)
    BY <2>3 DEF BeginReconnect
  <2>. QED BY <2>2, <2>3 DEF BeginSweep, CheckNow
<1>2. Relied(Check(pc, kind, o, c, closed, 1, "none", hosts))
  BY DEF Relied, Check
<1>. QED BY <1>1, <1>2

(* A step of a check that touches neither the rows nor the project.        *)
LEMMA AdvanceRelied ==
  ASSUME IInv, FlightInv, NEW k \in Checker,
         Lookup(k) \/ ApplyRefused(k) \/ Reread(k) \/ Crash(k)
  PROVE  \E x : checker' = [checker EXCEPT ![k] = x] /\ (x.pc # "idle" => Relied(x))
<1>. DEFINE ck == checker[k]
<1>1. ck.pc # "idle" /\ ck \in CheckRecord /\ Relied(ck)
  <2>1. ck.pc # "idle"
    BY DEF Lookup, ApplyRefused, Reread, Crash, Gathered
  <2>. QED BY <2>1, CheckAt DEF FlightInv, IInv
<1>2. Idle.pc = "idle"
  BY DEF Idle
<1>3. CASE Lookup(k)
  <2>1. PICK answer : checker' = [checker EXCEPT ![k] =
           CASE ck.kind # "reconnect" -> [ck EXCEPT !.pc = "call", !.proof = answer]
             [] ck.kind = "reconnect" /\ answer = "present" -> [ck EXCEPT !.pc = "reconnect"]
             [] OTHER -> Idle]
    BY <1>3 DEF Lookup
  <2>2. \A x : x = [ck EXCEPT !.pc = "call", !.proof = answer] \/ x = [ck EXCEPT !.pc = "reconnect"]
               => x.seen = ck.seen /\ x.ev = ck.ev /\ x.org = ck.org
    <3>1. ck = [pc |-> ck.pc, kind |-> ck.kind, org |-> ck.org, claim |-> ck.claim,
                closed |-> ck.closed, pass |-> ck.pass, proof |-> ck.proof,
                seen |-> ck.seen, ev |-> ck.ev]
      BY <1>1, CheckTyped
    <3>. HIDE DEF ck
    <3>. QED BY <3>1
  <2>3. \A x : x.seen = ck.seen /\ x.ev = ck.ev /\ x.org = ck.org => Relied(x)
    BY <1>1 DEF Relied
  <2>. HIDE DEF ck
  <2>. QED BY <1>2, <2>1, <2>2, <2>3
<1>4. CASE Reread(k)
  <2>1. checker' = [checker EXCEPT ![k] =
          IF Still(ck) = {} THEN Idle
          ELSE Check("call", ck.kind, ck.org, ck.claim, FALSE, 2, ck.proof, Still(ck))]
    BY <1>4 DEF Reread
  <2>2. Relied(Check("call", ck.kind, ck.org, ck.claim, FALSE, 2, ck.proof, Still(ck)))
    BY DEF Relied, Check
  <2>. HIDE DEF ck
  <2>. QED BY <1>2, <2>1, <2>2
<1>5. CASE ApplyRefused(k) \/ Crash(k)
  BY <1>2, <1>5 DEF ApplyRefused, Crash
<1>. QED BY <1>3, <1>4, <1>5

(* The rows pass two takes up were verified when the check saw them.       *)
LEMMA ApplyRelied ==
  ASSUME IInv, FlightInv, NEW k \in Checker, Apply(k) \/ ApplyReconnect(k)
  PROVE  \E x : checker' = [checker EXCEPT ![k] = x] /\ (x.pc # "idle" => Relied(x)')
<1>. DEFINE ck == checker[k]
<1>1. Idle.pc = "idle"
  BY DEF Idle
<1>2. CASE Apply(k)
  <2>1. ck \in CheckRecord
    BY <1>2, CheckAt DEF IInv, Apply, Gathered
  <2>2. PICK d : checker' = [checker EXCEPT ![k] = AfterApply(ck, d, Unmoved(ck))]
    BY <1>2 DEF Apply
  <2>. DEFINE follow == {h \in Unmoved(ck) : dom[Slot(ck.org, h)].state = "verified"
                                             /\ d[Slot(ck.org, h)].state = "attach_pending"}
              x == [ck EXCEPT !.pc = "reread", !.pass = 2,
                              !.seen = [h \in follow |-> ck.seen[h]],
                              !.ev = [h \in follow |-> "none"]]
  <2>3. AfterApply(ck, d, Unmoved(ck)) \in {x, Idle}
    BY DEF AfterApply
  <2>4. \A h \in follow : ck.seen[h].state = "verified"
    BY DEF Unmoved
  <2>5. x.seen = [h \in follow |-> ck.seen[h]] /\ x.ev = [h \in follow |-> "none"]
    <3>. HIDE DEF follow, ck
    <3>. QED BY <2>1, CheckTyped
  <2>. HIDE DEF follow, x, ck
  <2>6. PICK y : y \in {x, Idle} /\ checker' = [checker EXCEPT ![k] = y]
    BY <2>2, <2>3
  <2>7. y.pc # "idle" => /\ DOMAIN y.ev = DOMAIN y.seen
                         /\ \A h \in DOMAIN y.seen : y.seen[h].state = "verified"
    BY <1>1, <2>4, <2>5, <2>6
  <2>8. y.pc # "idle" => Relied(y)'
    BY <2>7 DEF Relied, Serving
  <2>. QED BY <2>6, <2>8
<1>3. CASE ApplyReconnect(k)
  BY <1>1, <1>3 DEF ApplyReconnect
<1>. QED BY <1>2, <1>3

(* A detach the check is told of has taken place; an attach is of a host   *)
(* the check saw attached or about to be.                                  *)
LEMMA CallRelied ==
  ASSUME IInv, FlightInv, NEW k \in Checker, NEW h \in Host,
         AddDomain(k, h) \/ GetDomain(k, h) \/ RemoveDomain(k, h)
  PROVE  \E x : checker' = [checker EXCEPT ![k] = x] /\ Relied(x)'
<1>. DEFINE ck == checker[k]
<1>1. CallDue(k, h, "add") \/ CallDue(k, h, "get") \/ CallDue(k, h, "remove")
  BY DEF AddDomain, GetDomain, RemoveDomain
<1>2. ck \in CheckRecord /\ Relied(ck) /\ h \in DOMAIN ck.seen
  <2>1. ck.pc # "idle" /\ h \in DOMAIN ck.seen
    BY <1>1 DEF CallDue
  <2>. QED BY <2>1, CheckAt DEF FlightInv, IInv
<1>3. PICK e : /\ Learn(k, h, e) /\ dom' = dom
               /\ \/ project' \subseteq project \cup {h} /\ ck.seen[h].state # "release_pending"
                  \/ project' \subseteq project /\ (e = "ok" => h \notin project')
  <2>1. CASE AddDomain(k, h)
    <3>1. ck.seen[h].state # "release_pending"
      <4>. HIDE DEF ck
      <4>. QED BY <2>1 DEF AddDomain, CallDue, CallFor, ck
    <3>2. PICK e : Learn(k, h, e) /\ dom' = dom /\ project' \subseteq project \cup {h}
      BY <2>1 DEF AddDomain
    <3>. QED BY <3>1, <3>2
  <2>2. CASE GetDomain(k, h)
    <3>1. PICK e : e # "ok" /\ Learn(k, h, e) /\ dom' = dom /\ project' = project
      BY <2>2 DEF GetDomain, Probes
    <3>. QED BY <3>1
  <2>3. CASE RemoveDomain(k, h)
    BY <2>3 DEF RemoveDomain
  <2>. QED BY <2>1, <2>2, <2>3
<1>. DEFINE x == [ck EXCEPT !.ev[h] = e]
<1>4. checker' = [checker EXCEPT ![k] = x]
  BY <1>3 DEF Learn
<1>5. x.seen = ck.seen /\ x.org = ck.org /\ x.ev = [ck.ev EXCEPT ![h] = e]
  <2>. HIDE DEF ck
  <2>. QED BY <1>2, CheckTyped
<1>6. Relied(ck) /\ h \in DOMAIN ck.ev
  BY <1>2 DEF Relied
<1>. HIDE DEF x, ck
<1>7. PICK y : y = x
  OBVIOUS
<1>8. DOMAIN y.ev = DOMAIN y.seen
  BY <1>5, <1>6, <1>7 DEF Relied
<1>9. ASSUME NEW g \in DOMAIN y.seen
      PROVE  /\ y.seen[g].state \in Serving => dom'[Slot(y.org, g)].state \in Serving
             /\ y.seen[g].state = "release_pending" /\ y.ev[g] = "ok" => g \notin project'
  <2>1. /\ g \in DOMAIN ck.seen /\ y.seen[g] = ck.seen[g] /\ y.org = ck.org
        /\ y.ev[g] = IF g = h THEN e ELSE ck.ev[g]
    BY <1>5, <1>6, <1>7, <1>9 DEF Relied
  <2>. QED BY <1>3, <1>6, <2>1 DEF Relied
<1>10. Relied(y)'
  BY <1>8, <1>9 DEF Relied, Serving
<1>. QED BY <1>4, <1>7, <1>10

LEMMA FlightKept ==
  ASSUME \A j, l \in Checker : j = l, IInv, IInv', FlightInv, [G!Next]_(G!vars), [Next]_vars
  PROVE  FlightInv'
<1>0. TypeOK
  BY DEF IInv
<1>1. ASSUME NEW k \in Checker, Lookup(k) \/ ApplyRefused(k) \/ Reread(k) \/ Crash(k) PROVE FlightInv'
  <2>1. UNCHANGED <<dom, project>>
    BY <1>1 DEF Lookup, ApplyRefused, Reread, Crash
  <2>2. PICK x : checker' = [checker EXCEPT ![k] = x] /\ (x.pc # "idle" => Relied(x))
    BY <1>1, AdvanceRelied
  <2>3. x.pc # "idle" => Relied(x)'
    BY <2>1, <2>2 DEF Relied
  <2>. QED BY <1>0, <2>2, <2>3, FlightOne
<1>2. ASSUME NEW k \in Checker, Apply(k) \/ ApplyReconnect(k) PROVE FlightInv'
  <2>1. PICK x : checker' = [checker EXCEPT ![k] = x] /\ (x.pc # "idle" => Relied(x)')
    BY <1>2, ApplyRelied
  <2>. QED BY <1>0, <2>1, FlightOne
<1>3. ASSUME NEW k \in Checker, NEW h \in Host, AddDomain(k, h) \/ GetDomain(k, h) \/ RemoveDomain(k, h)
      PROVE  FlightInv'
  <2>1. PICK x : checker' = [checker EXCEPT ![k] = x] /\ Relied(x)'
    BY <1>3, CallRelied
  <2>. QED BY <1>0, <2>1, FlightOne
<1>4. ASSUME NEW k \in Checker, NEW o \in Org, NEW c \in ClaimName,
             BeginSweep(k, o, c) \/ CheckNow(k, o, c) \/ BeginReconnect(k, o, c)
      PROVE  FlightInv'
  <2>1. UNCHANGED <<dom, project>>
    BY <1>4 DEF BeginSweep, CheckNow, BeginReconnect, Begin
  <2>2. PICK x : checker' = [checker EXCEPT ![k] = x] /\ Relied(x)
    BY <1>4, BeginRelied
  <2>3. Relied(x)'
    BY <2>1, <2>2 DEF Relied
  <2>. QED BY <1>0, <2>2, <2>3, FlightOne
<1>5. ASSUME Quiet, project' \subseteq project, checker' = checker PROVE FlightInv'
  BY <1>5, ReliedStays
<1>6. ASSUME \A s \in G!Key : dom'[s].state = dom[s].state, project' \subseteq project, checker' = checker
      PROVE  FlightInv'
  BY <1>5, <1>6 DEF Quiet
<1>7. ASSUME NEW o \in Org, NEW c \in ClaimName, ClaimDomain(o, c) \/ RemoveClaim(o, c) \/ Publish(o, c)
      PROVE  FlightInv'
  <2>1. project' = project /\ checker' = checker
    BY <1>7 DEF ClaimDomain, RemoveClaim, Publish
  <2>2. Quiet \/ dom' = dom
    BY <1>7, ClaimQuiet, RemoveQuiet DEF Publish
  <2>. QED BY <1>5, <1>6, <2>1, <2>2
<1>8. ASSUME NEW o \in Org, NEW h \in Host,
             ChangeCanonical(o, h) \/ SetDomainHold(o, h) \/ ForceRelease(o, h) \/ Clock(o, h)
      PROVE  FlightInv'
  <2>1. project' = project /\ checker' = checker
    BY <1>8 DEF ChangeCanonical, SetDomainHold, ForceRelease, Clock
  <2>2. Quiet \/ \A s \in G!Key : dom'[s].state = dom[s].state
    BY <1>8, CanonicalQuiet, ForceQuiet, ClockStep DEF SetDomainHold
  <2>. QED BY <1>5, <1>6, <2>1, <2>2
<1>9. ASSUME NEW o \in Org, LifecycleEvent(o) PROVE FlightInv'
  <2>1. project' = project /\ checker' = checker /\ dom' = dom
    BY <1>9, LifecycleStep DEF LifecycleEvent
  <2>. QED BY <1>6, <2>1
<1>10. ASSUME NEW h \in Host, ProviderDrops(h) PROVE FlightInv'
  BY <1>6, <1>10 DEF ProviderDrops
<1>11. CASE UNCHANGED vars
  BY <1>6, <1>11 DEF vars
<1>. QED
  BY <1>1, <1>2, <1>3, <1>4, <1>7, <1>8, <1>9, <1>10, <1>11 DEF Next, Advance

(* The steps that add to the project, and the ones that end a release.     *)
LEMMA AttachedIsServing ==
  ASSUME IInv, FlightInv, [Next]_vars, NEW h \in project' \ project
  PROVE  Accounted(h) /\ dom' = dom
<1>1. PICK k \in Checker : AddDomain(k, h)
  <2>1. ASSUME NEW k \in Checker, NEW g \in Host, AddDomain(k, g) PROVE g = h
    BY <2>1 DEF AddDomain
  <2>2. ~(project' \subseteq project)
    OBVIOUS
  <2>3. ASSUME NEW k \in Checker, NEW g \in Host, GetDomain(k, g) \/ RemoveDomain(k, g) PROVE FALSE
    BY <2>2, <2>3 DEF GetDomain, RemoveDomain
  <2>4. ASSUME NEW g \in Host, ProviderDrops(g) PROVE FALSE
    BY <2>2, <2>4 DEF ProviderDrops
  <2>. QED
    BY <2>1, <2>2, <2>3, <2>4
       DEF Next, vars, Advance, Lookup, Apply, ApplyRefused, Reread, ApplyReconnect, Crash,
           BeginSweep, CheckNow, BeginReconnect, Begin, ClaimDomain, RemoveClaim, Publish,
           ChangeCanonical, SetDomainHold, ForceRelease, Clock, LifecycleEvent
<1>. DEFINE ck == checker[k]
<1>2. /\ dom' = dom /\ ck.pc # "idle" /\ h \in DOMAIN ck.seen /\ CallFor(ck, h) = "add"
  BY <1>1 DEF AddDomain, CallDue
<1>3. ck.seen[h].state \in {"attach_pending", "attached", "live"}
  <2>. HIDE DEF ck
  <2>. QED BY <1>2 DEF CallFor
<1>4. Relied(ck) /\ ck.org \in Org
  BY <1>2, CheckAt DEF FlightInv, IInv
<1>5. dom[Slot(ck.org, h)].state \in Serving
  BY <1>2, <1>3, <1>4 DEF Relied, Serving, G!Holding
<1>. QED BY <1>2, <1>4, <1>5 DEF Accounted, Serving

LEMMA ReleaseDetached ==
  ASSUME IInv, FlightInv, [Next]_vars, NEW o \in Org, NEW h \in Host,
         dom[Slot(o, h)].state = "release_pending", dom'[Slot(o, h)].state # "release_pending"
  PROVE  h \notin project /\ project' = project
<1>0. Slot(o, h) \in G!Key /\ \A p, g : Slot(o, h) = Slot(p, g) => p = o /\ g = h
  BY Keys DEF Slot
<1>1. ASSUME NEW k \in Checker, Apply(k) PROVE h \notin project /\ project' = project
  <2>1. PICK g \in Unmoved(checker[k]) :
          Slot(o, h) = Slot(checker[k].org, g) /\ checker[k].ev[g] = "ok"
    BY <1>0, <1>1, ApplyStates
  <2>2. checker[k].org = o /\ g = h
    BY <1>0, <2>1
  <2>3. checker[k].seen[h].state = "release_pending" /\ h \in DOMAIN checker[k].seen
    BY <2>1, <2>2 DEF Unmoved, Still
  <2>4. Relied(checker[k])
    BY <1>1 DEF Apply, Gathered, FlightInv
  <2>. QED BY <1>1, <2>1, <2>2, <2>3, <2>4 DEF Relied, Apply
<1>2. ASSUME NEW k \in Checker, ApplyReconnect(k) PROVE FALSE
  BY <1>0, <1>2, ReconnectStates
<1>3. ASSUME Quiet PROVE FALSE
  BY <1>0, <1>3 DEF Quiet
<1>4. ASSUME NEW p \in Org, NEW c \in ClaimName, ClaimDomain(p, c) \/ RemoveClaim(p, c) PROVE FALSE
  BY <1>3, <1>4, ClaimQuiet, RemoveQuiet
<1>5. ASSUME NEW p \in Org, NEW g \in Host, ChangeCanonical(p, g) \/ ForceRelease(p, g) PROVE FALSE
  BY <1>3, <1>5, CanonicalQuiet, ForceQuiet
<1>6. ASSUME NEW p \in Org, NEW g \in Host, Clock(p, g) PROVE FALSE
  BY <1>0, <1>6, ClockStep
<1>7. ASSUME NEW p \in Org, LifecycleEvent(p) PROVE FALSE
  BY <1>7, LifecycleStep
<1>8. dom' # dom
  OBVIOUS
<1>. QED
  BY <1>1, <1>2, <1>4, <1>5, <1>6, <1>7, <1>8
     DEF Next, vars, Advance, Lookup, ApplyRefused, Reread, Crash, AddDomain, GetDomain, RemoveDomain,
         BeginSweep, CheckNow, BeginReconnect, Begin, Publish, SetDomainHold, ProviderDrops

(* The provider's project holds a host no organization holds only when a   *)
(* claim back from suspension was released straight from verified - as     *)
(* long as no two checks overlap.  (When they do, an attach of one can     *)
(* follow the detach the other was told of.)                               *)
THEOREM OrphanHolds ==
  ASSUME \A j, l \in Checker : j = l
  PROVE  Spec => OrphanOnlyFromVerified
<1>. DEFINE Orphan(h) ==
       h \in project' /\ ~Accounted(h)' =>
         \/ h \in project /\ ~Accounted(h)
         \/ \E o \in Org : dom[Slot(o, h)].state = "verified"
                         /\ dom'[Slot(o, h)].state = "released"
<1>1. Init => FlightInv
  BY DEF Init, Idle, FlightInv
<1>2. FlightInv /\ IInv /\ IInv' /\ [Next]_vars => FlightInv'
  BY NextKeeps, FlightKept
<1>3. ASSUME IInv, FlightInv, [Next]_vars, NEW h \in Host, h \in project', ~Accounted(h)'
      PROVE  \/ h \in project /\ ~Accounted(h)
             \/ \E o \in Org : dom[Slot(o, h)].state = "verified" /\ dom'[Slot(o, h)].state = "released"
  <2>1. h \in project
    BY <1>3, AttachedIsServing DEF Accounted
  <2>2. ASSUME NEW o \in Org, dom[Slot(o, h)].state \in G!Holding
        PROVE  dom[Slot(o, h)].state = "verified" /\ dom'[Slot(o, h)].state = "released"
    <3>1. dom'[Slot(o, h)].state \notin G!Holding /\ Slot(o, h) \in G!Key
      BY <1>3, Keys DEF Accounted
    <3>2. [G!Next]_(G!vars) /\ IInv'
      BY <1>3, NextKeeps
    <3>3. dom[Slot(o, h)].state \in G!State /\ dom'[Slot(o, h)].state \in G!State
      BY <1>3, <3>1, <3>2 DEF IInv, TypeOK, G!TypeOK, G!Row
    <3>4. G!LegalEdge("web", dom[Slot(o, h)].state, dom'[Slot(o, h)].state)
      BY <1>3, <2>2, <3>1, <3>2, EdgesOnly DEF G!NonTerminal
    <3>5. /\ dom'[Slot(o, h)].state = "released"
          /\ dom[Slot(o, h)].state \in {"verified", "release_pending"}
      BY <2>2, <3>1, <3>3, <3>4, Leaving
    <3>6. dom[Slot(o, h)].state # "release_pending"
      BY <1>3, <2>1, <3>5, ReleaseDetached
    <3>. QED BY <3>5, <3>6
  <2>. QED BY <2>1, <2>2 DEF Accounted
<1>4. IInv /\ FlightInv /\ [Next]_vars => [\A h \in Host : Orphan(h)]_vars
  BY <1>3
<1>. QED BY <1>1, <1>2, <1>4, Inductive, PTL DEF Spec, OrphanOnlyFromVerified
===============================================================================

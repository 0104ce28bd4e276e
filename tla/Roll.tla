-------------------------------- MODULE Roll --------------------------------
(***************************************************************************)
(* The membership roll.  What a Session did is a table of roll actions,    *)
(* and everything else is replayed from it: drizzle/0012 (the replay and   *)
(* its cache), 0061 (participants, entered on record), 0062 (proposals a   *)
(* Session decides) and 0014 (a seat holds its membership open), called by *)
(* src/lib/roll.ts, officers.ts and community-engagement.ts.               *)
(*                                                                         *)
(* Every writer locks the membership row first, so a step is one           *)
(* transaction -- but for two that lock nothing before their commit: the   *)
(* pastor's term (StartTerm), which reads the roll, and a clerk's proposal *)
(* (Propose).  A row's place in acts is its recorded_at: the instant of an *)
(* enrolment, a removal or a void, but the start of a proposal's           *)
(* transaction, which others may overtake.  A membership is a pair         *)
(* <<organization, person>>; the memberships exist from the start.         *)
(***************************************************************************)
EXTENDS Integers, FiniteSets, Sequences

CONSTANTS Org, Person,
          Gains,      \* the member gains a clerk proposes
          Pastors,    \* the memberships that may be given a pastor's term
          LastDay, MaxActs

VARIABLES today,  \* current_date
          acts,   \* roll_actions, in order of recorded_at
          cache,  \* memberships.current_roll
          ended,  \* memberships.ended_on and ended_reason
          term    \* an open pastor-office term, and whether it has committed

vars == <<today, acts, cache, ended, term>>

Membership == Org \X Person
Day == 1 .. LastDay

Active == {"profession_of_faith", "reaffirmation", "restoration",
           "certificate_received", "other_gain"}
MemberGains == Active \cup {"baptized_member_enrolled", "affiliate_received"}
OnRecord == {"other_participant_enrolled", "other_participant_removed"}

NoRoll == "none"
Rolls == {NoRoll, "active", "baptized", "affiliate", "other_participant"}

RollOf(kind) ==
  CASE kind \in Active -> "active"
    [] kind = "baptized_member_enrolled" -> "baptized"
    [] kind = "affiliate_received" -> "affiliate"
    [] kind = "other_participant_enrolled" -> "other_participant"
    [] OTHER -> NoRoll

Status == {"begun", "pending", "approved", "denied", "withdrawn"}

Action == [of: Membership, kind: MemberGains \cup OnRecord \cup {"void"},
           on: Day, status: Status, voids: Nat]

Live == [why |-> "live", on |-> 0]
NoTerm == [starts |-> 0, seen |-> FALSE]

ASSUME RollAssumption ==
  /\ Gains \subseteq MemberGains
  /\ Pastors \subseteq Membership
  /\ LastDay \in Nat \ {0} /\ MaxActs \in Nat
----------------------------------------------------------------------------
(* The replay, over any table of actions. *)

Voided(log, i) == \E j \in DOMAIN log : log[j].voids = i /\ log[j].status = "approved"

\* presby_effective_roll_actions, for one membership.
Effective(log, m) ==
  {i \in DOMAIN log : /\ log[i].of = m /\ log[i].status = "approved"
                      /\ log[i].kind # "void" /\ ~Voided(log, i)}

Before(log, i, j) == log[i].on < log[j].on \/ (log[i].on = log[j].on /\ i < j)

\* The last of a set of rows, as a set of at most one.
LastOf(log, rows) == {i \in rows : \A j \in rows \ {i} : Before(log, j, i)}
FirstOf(log, rows) == {i \in rows : \A j \in rows \ {i} : Before(log, i, j)}

RollOfRows(log, rows) ==
  IF rows = {} THEN NoRoll ELSE RollOf(log[CHOOSE i \in rows : TRUE].kind)

RollAsOf(log, m, day) ==
  RollOfRows(log, LastOf(log, {i \in Effective(log, m) : log[i].on <= day}))

RollToday(m) == RollAsOf(acts, m, today)
Latest(m) == LastOf(acts, Effective(acts, m))

\* memberships_one_active_roll_idx, which holds across organizations.
OneActive(rolls, ends) ==
  \A m, n \in Membership :
    (/\ m[2] = n[2] /\ m # n
     /\ rolls[m] = "active" /\ ends[m] = Live /\ ends[n] = Live) => rolls[n] # "active"

\* presby_sync_current_roll, fired by every row that is or becomes approved.
Projected(log, m) == [cache EXCEPT ![m] = RollAsOf(log, m, today)]

Commit(log, m, ends) ==
  /\ OneActive(Projected(log, m), ends)
  /\ acts' = log /\ cache' = Projected(log, m) /\ ended' = ends
  /\ UNCHANGED <<today, term>>

Pending(m) == {i \in DOMAIN acts : acts[i].of = m /\ acts[i].status = "pending"}
Row(m, kind, day, status, voids) ==
  [of |-> m, kind |-> kind, on |-> day, status |-> status, voids |-> voids]
Seated(m) == term[m].seen
----------------------------------------------------------------------------
Init == /\ today = 1 /\ acts = <<>>
        /\ cache = [m \in Membership |-> NoRoll]
        /\ ended = [m \in Membership |-> Live]
        /\ term = [m \in Membership |-> NoTerm]

(* A clerk's proposal, of any real date, begins.  It asks nothing of the   *)
(* membership, and nobody sees it before it commits. *)
Propose(m, kind, day) ==
  /\ Len(acts) < MaxActs
  /\ acts' = Append(acts, Row(m, kind, day, "begun", 0))
  /\ UNCHANGED <<today, cache, ended, term>>

(* One pending per membership.  A proposal that is refused stays begun. *)
ProposalCommitted(i) ==
  /\ acts[i].status = "begun" /\ Pending(acts[i].of) = {}
  /\ acts' = [acts EXCEPT ![i].status = "pending"]
  /\ UNCHANGED <<today, cache, ended, term>>

Decided(i, status) ==
  /\ acts[i].status = "pending"
  /\ acts' = [acts EXCEPT ![i].status = status]
  /\ UNCHANGED <<today, cache, ended, term>>

Deny(i) == Decided(i, "denied")
Withdraw(i) == Decided(i, "withdrawn")

Following(i) == FirstOf(acts, {j \in Effective(acts, acts[i].of) : Before(acts, i, j)})

\* already_on_roll, seen from the day it takes effect and from the row after.
AlreadyOnRoll(i) ==
  LET roll == RollOf(acts[i].kind) IN
    \/ RollAsOf(acts, acts[i].of, acts[i].on) = roll
    \/ \E j \in Following(i) : acts[j].kind \in Active /\ RollOf(acts[j].kind) = roll

(* A slip: the membership's end is not asked. *)
ApproveEnded(i) ==
  LET m == acts[i].of IN
    /\ acts[i].status = "pending" /\ ~Seated(m) /\ ~AlreadyOnRoll(i)
    /\ Commit([acts EXCEPT ![i].status = "approved"], m, ended)

Approve(i) ==
  LET m == acts[i].of IN
    /\ acts[i].status = "pending" /\ ended[m] = Live
    /\ ~Seated(m) /\ ~AlreadyOnRoll(i)
    /\ Commit([acts EXCEPT ![i].status = "approved"], m, ended)

(* An enrolment takes effect on record, with no Session. *)
Enrol(m, day) ==
  /\ Len(acts) < MaxActs /\ day <= today
  /\ ended[m] = Live /\ Pending(m) = {}
  /\ RollToday(m) = NoRoll
  /\ \A i \in Latest(m) : acts[i].on <= day
  /\ Commit(Append(acts, Row(m, "other_participant_enrolled", day, "approved", 0)), m, ended)

\* memberships_guard_end: a seat that has begun holds the membership open.
MayEnd(m, day) == ~(Seated(m) /\ term[m].starts <= day)

(* A slip: the membership runs one day more. *)
EndedNextDay(m, why, day) == [ended EXCEPT ![m] = [why |-> why, on |-> day + 1]]

Ended(m, why, day) == [ended EXCEPT ![m] = [why |-> why, on |-> day]]

(* A removal ends the membership as well. *)
Remove(m, day) ==
  /\ Len(acts) < MaxActs /\ day <= today
  /\ ended[m] = Live /\ Pending(m) = {}
  /\ RollToday(m) = "other_participant"
  /\ \E i \in Latest(m) : /\ acts[i].kind = "other_participant_enrolled"
                          /\ acts[i].on <= day
  /\ MayEnd(m, day)
  /\ Commit(Append(acts, Row(m, "other_participant_removed", day, "approved", 0)), m,
            Ended(m, "removed", day))

(* The latest action is undone by a row that voids it, and an undone       *)
(* removal opens the membership again. *)
Void(i) ==
  LET m == acts[i].of
      removal == acts[i].kind = "other_participant_removed"
  IN /\ Len(acts) < MaxActs
     /\ acts[i].status = "approved" /\ acts[i].kind \in OnRecord
     /\ i \in Latest(m)
     /\ removal => ended[m] = [why |-> "removed", on |-> acts[i].on]
     /\ Commit(Append(acts, Row(m, "void", today, "approved", i)), m,
               IF removal THEN [ended EXCEPT ![m] = Live] ELSE ended)

(* A visitor or an inactive person, by the cached roll, is archived and    *)
(* restored; the engagement itself is the clerk's to set at any time. *)
Archive(m) ==
  /\ ended[m] = Live /\ cache[m] = NoRoll
  /\ Pending(m) = {} /\ ~Seated(m)
  /\ ended' = Ended(m, "archived", today)
  /\ UNCHANGED <<today, acts, cache, term>>

Restore(m) ==
  /\ ended[m].why = "archived"
  /\ ended' = [ended EXCEPT ![m] = Live]
  /\ OneActive(cache, ended')
  /\ UNCHANGED <<today, acts, cache, term>>

(* A pastor is not on the roll of the congregation served.  The roll is    *)
(* read, and nothing locked, before the term can be seen. *)
StartTerm(m, day) ==
  /\ term[m] = NoTerm /\ ended[m] = Live /\ cache[m] = NoRoll
  /\ RollAsOf(acts, m, IF day > today THEN day ELSE today) = NoRoll
  /\ term' = [term EXCEPT ![m] = [starts |-> day, seen |-> FALSE]]
  /\ UNCHANGED <<today, acts, cache, ended>>

TermCommitted(m) ==
  /\ term[m] # NoTerm /\ ~Seated(m)
  /\ term' = [term EXCEPT ![m].seen = TRUE]
  /\ UNCHANGED <<today, acts, cache, ended>>

\* officer_terms_needs_membership lets no end past the membership's.
EndTerm(m) ==
  /\ Seated(m)
  /\ ended[m] = Live \/ term[m].starts <= ended[m].on
  /\ term' = [term EXCEPT ![m] = NoTerm]
  /\ UNCHANGED <<today, acts, cache, ended>>

(* A slip: the sweep takes the latest action whatever its day. *)
ReconcileAhead ==
  /\ cache' = [m \in Membership |-> RollOfRows(acts, Latest(m))]
  /\ OneActive(cache', ended)
  /\ UNCHANGED <<today, acts, ended, term>>

(* A slip: only memberships that are on no roll are swept. *)
ReconcileUnset ==
  /\ cache' = [m \in Membership |-> IF cache[m] = NoRoll THEN RollToday(m) ELSE cache[m]]
  /\ OneActive(cache', ended)
  /\ UNCHANGED <<today, acts, ended, term>>

(* The daily sweep writes every stale cache in one statement, or none. *)
Reconcile ==
  /\ cache' = [m \in Membership |-> RollToday(m)]
  /\ OneActive(cache', ended)
  /\ UNCHANGED <<today, acts, ended, term>>

Tomorrow ==
  /\ today < LastDay
  /\ today' = today + 1
  /\ UNCHANGED <<acts, cache, ended, term>>

Next ==
  \/ \E m \in Membership, kind \in Gains, day \in Day : Propose(m, kind, day)
  \/ \E i \in DOMAIN acts : ProposalCommitted(i) \/ Approve(i) \/ Deny(i) \/ Withdraw(i) \/ Void(i)
  \/ \E m \in Membership, day \in Day : Enrol(m, day) \/ Remove(m, day)
  \/ \E m \in Membership : Archive(m) \/ Restore(m)
  \/ \E m \in Pastors, day \in Day : StartTerm(m, day)
  \/ \E m \in Pastors : TermCommitted(m) \/ EndTerm(m)
  \/ Reconcile
  \/ Tomorrow

Spec == Init /\ [][Next]_vars

\* The maintenance route is called every day.
FairSpec == Spec /\ WF_vars(Reconcile)
----------------------------------------------------------------------------
(* Properties. *)

(* Every variable has its type (roll_actions, memberships, officer_terms). *)
TypeOK ==
  /\ today \in Day
  /\ acts \in Seq(Action) /\ Len(acts) <= MaxActs
  /\ cache \in [Membership -> Rolls]
  /\ ended \in [Membership -> [why: {"live", "removed", "archived"}, on: 0 .. LastDay]]
  /\ term \in [Membership -> [starts: 0 .. LastDay, seen: BOOLEAN]]

(* A membership is ended as a removal exactly while its latest effective   *)
(* action is that removal, of the same day: no approval, no enrolment and  *)
(* no void of another action comes between the register and the membership *)
(* (presby_record_participant_action, presby_void_participant_action). *)
RemovedAsRecorded ==
  \A m \in Membership :
    {acts[i].on : i \in {j \in Latest(m) : acts[j].kind = "other_participant_removed"}}
      = IF ended[m].why = "removed" THEN {ended[m].on} ELSE {}

(* The cached roll differs from the replay only by the calendar: an action *)
(* dated ahead has come due since the cache was last written, and none of  *)
(* the register's writes leaves it wrong for a day already reached         *)
(* (presby_sync_current_roll, presby_reconcile_current_roll). *)
StaleByTheCalendar ==
  \A m \in Membership : \E day \in 1 .. today : cache[m] = RollAsOf(acts, m, day)

(* Once nobody is due to be active at two organizations, every cache that  *)
(* is behind the replay catches up with it (the daily sweep, F29). *)
Clash == ~OneActive([m \in Membership |-> RollToday(m)], ended)
CaughtUp == (<>[]~Clash) => []<>(\A m \in Membership : cache[m] = RollToday(m))

(* The sweep always catches up: an action dated ahead is in the cache some *)
(* day after it came due (drizzle/0012:269-270). *)
SweepCatchesUp == []<>(\A m \in Membership : cache[m] = RollToday(m))
=============================================================================

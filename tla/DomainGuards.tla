----------------------------- MODULE DomainGuards -----------------------------
(***************************************************************************)
(* What the database promises about organization_domains, whoever writes:  *)
(* the CHECK constraints, the three partial unique indexes and the BEFORE  *)
(* INSERT / BEFORE UPDATE triggers of drizzle/0057.  A writer (the tenant  *)
(* connection, the cron, the platform owner) proposes column values; the   *)
(* guards accept or refuse, and stamp the columns they own.                *)
(*                                                                         *)
(* This is the abstract specification of the custom domain lifecycle:      *)
(* DomainLifecycle is shown to implement it, so none of the service's      *)
(* writes is one the guards would refuse.                                  *)
(*                                                                         *)
(* One slot per (organization, hostname, purpose).  The index              *)
(* organization_domains_org_host_uq allows one non-terminal row there, and *)
(* terminal rows are frozen history, so a slot holds the newest row only.  *)
(***************************************************************************)
EXTENDS Naturals, FiniteSets

CONSTANTS
  Org,       \* organizations
  Host,      \* hostnames
  Purpose,   \* the purposes in play: a subset of {"web", "mail"}
  WebCap,    \* non-terminal web rows an organization may have
  MailCap    \* non-terminal mail rows an organization may have

ASSUME PurposeAssumption == Purpose \subseteq {"web", "mail"}
ASSUME CapAssumption == WebCap \in Nat /\ MailCap \in Nat
ASSUME FiniteAssumption == IsFiniteSet(Org) /\ IsFiniteSet(Host)

VARIABLES
  dom,       \* the organization_domains table, by slot
  active     \* organizations.lifecycle_status = 'active', by organization

vars == <<dom, active>>

Key == Org \X Host \X Purpose
OrgOf(k) == k[1]
HostOf(k) == k[2]
PurposeOf(k) == k[3]

-------------------------------------------------------------------------------
(* Rows *)

Holding == {"verified", "attach_pending", "attached", "live",
            "lapsed", "parked", "release_pending"}
Terminal == {"released", "expired"}
NonTerminal == Holding \cup {"pending"}
State == NonTerminal \cup Terminal \cup {"none"}   \* "none": never claimed

(* The states an exit edge leads to: the ones that carry a release_cause.  *)
Exit == {"parked", "release_pending", "released"}

ForcedCause == {"force_released", "evicted"}
Cause == ForcedCause \cup {"removed", "lapsed_grace", "org_closed", "none"}

(* grace_ends_at: null, in the future, or already passed.                  *)
Grace == {"none", "running", "over"}

Row == [state: State,
        role: {"canonical", "alias", "none"},   \* web_role
        cause: Cause,                           \* release_cause
        grace: Grace,
        expired: BOOLEAN,                       \* a pending row's expires_at <= now()
        reason: BOOLEAN]                        \* force_release_reason is not null

NoRow == [state |-> "none", role |-> "none", cause |-> "none",
          grace |-> "none", expired |-> FALSE, reason |-> FALSE]

RoleAllowed(p, role) == (p = "web") <=> (role # "none")

(* A row as BEFORE INSERT admits it: pending, and every column the guards  *)
(* or the platform own still empty.                                        *)
Inserted(role) == [NoRow EXCEPT !.state = "pending", !.role = role]

-------------------------------------------------------------------------------
(* The update trigger *)

BothEdges == {<<"pending", "verified">>, <<"pending", "expired">>,
              <<"pending", "released">>, <<"verified", "lapsed">>,
              <<"verified", "released">>, <<"lapsed", "verified">>}

WebEdges == {<<"verified", "attach_pending">>} \cup
            ({"attach_pending"} \X {"attached", "lapsed", "parked", "release_pending"}) \cup
            ({"attached"} \X {"live", "lapsed", "parked", "release_pending"}) \cup
            ({"live"} \X {"attached", "lapsed", "parked", "release_pending"}) \cup
            ({"lapsed"} \X {"parked", "release_pending"}) \cup
            ({"parked"} \X {"verified", "release_pending"}) \cup
            {<<"release_pending", "released">>}

MailEdges == {<<"lapsed", "released">>}

LegalEdge(p, from, to) ==
  \/ <<from, to>> \in BothEdges
  \/ p = "web" /\ <<from, to>> \in WebEdges
  \/ p = "mail" /\ <<from, to>> \in MailEdges

(* A slip: a removal restarts a lapsed row's grace.                        *)
StampedAnew(old, new) ==
  IF new.state = old.state THEN new ELSE
  [new EXCEPT !.cause = IF new.state = "verified" THEN "none" ELSE @,
              !.grace = CASE new.state = "verified" -> "none"
                          [] new.state \in {"lapsed", "parked"} -> "running"
                          [] OTHER -> @,
              !.expired = FALSE]

(* What NEW carries once the trigger has stamped it.  (expires_at is read  *)
(* of pending rows only, and forgotten with the state.)                    *)
Stamped(old, new) ==
  IF new.state = old.state THEN new ELSE
  [new EXCEPT
     !.cause = IF new.state = "verified" THEN "none" ELSE @,
     !.grace = CASE new.state = "verified" -> "none"
                 [] new.state \in {"lapsed", "parked"} /\ old.state # "lapsed" -> "running"
                 [] OTHER -> @,
     !.expired = FALSE]

(* A slip: the deadline is not looked at.                                  *)
ExitEvidenceAnytime(old, new, orgActive) ==
  \/ old.state = "release_pending" /\ new.cause = old.cause
  \/ /\ old.state # "release_pending"
     /\ new.reason /\ new.state # "parked" /\ new.cause \in ForcedCause
  \/ /\ old.state \in {"lapsed", "parked"} /\ new.state = "release_pending" /\ ~new.reason
     /\ new.cause = IF old.state = "lapsed" THEN "lapsed_grace" ELSE old.cause
     /\ new.cause \notin ForcedCause \cup {"none"}
  \/ /\ old.state # "release_pending" /\ new.state # "release_pending" /\ ~new.reason
     /\ new.cause \in {"removed", "org_closed"}
     /\ new.cause = "org_closed" => ~orgActive

(* release_cause on an exit edge: what was recorded when the release       *)
(* began, the platform's reason, the grace deadline, or a removal.         *)
ExitEvidence(old, new, orgActive) ==
  \/ /\ old.state = "release_pending"
     /\ new.cause = old.cause
  \/ /\ old.state # "release_pending"
     /\ new.reason
     /\ new.state # "parked"
     /\ new.cause \in ForcedCause
  \/ /\ old.state \in {"lapsed", "parked"}
     /\ new.state = "release_pending"
     /\ ~new.reason
     /\ old.grace = "over"
     /\ new.cause = IF old.state = "lapsed" THEN "lapsed_grace" ELSE old.cause
     /\ new.cause \notin ForcedCause \cup {"none"}
  \/ /\ old.state # "release_pending"
     /\ new.state # "release_pending"
     /\ ~new.reason
     /\ new.cause \in {"removed", "org_closed"}
     /\ new.cause = "org_closed" => ~orgActive

(* The columns an edge may not move without being the edge that owns them. *)
CauseAccepted(old, new, orgActive) ==
  CASE new.state = old.state -> new.cause = old.cause
    [] new.state # old.state /\ new.state \in Exit -> ExitEvidence(old, new, orgActive)
    [] new.state = "verified" /\ old.state # "verified" -> new.cause = "none"
    [] OTHER -> new.cause = old.cause

ReasonAccepted(old, new) ==
  new.reason # old.reason =>
    /\ new.state # old.state
    /\ new.state \in {"release_pending", "released"}
    /\ old.state # "release_pending"

(* BEFORE UPDATE lets the row old become the row new.                      *)
UpdateAccepted(p, old, new, orgActive) ==
  /\ old.state \in NonTerminal
  /\ new.state # old.state => LegalEdge(p, old.state, new.state)
  /\ new.state = "expired" => old.expired
  /\ RoleAllowed(p, new.role)
  /\ ReasonAccepted(old, new)
  /\ CauseAccepted(old, new, orgActive)
  /\ LET s == Stamped(old, [new EXCEPT !.grace = old.grace, !.expired = old.expired]) IN
       new.grace = s.grace /\ new.expired = s.expired

(* BEFORE INSERT lets the row new into the slot.                           *)
InsertAccepted(p, old, new) ==
  /\ old.state \notin NonTerminal
  /\ \E role \in {"canonical", "alias", "none"} :
        RoleAllowed(p, role) /\ new = Inserted(role)

-------------------------------------------------------------------------------
(* The unique indexes, and the caps the insert trigger counts under the    *)
(* organization's advisory lock.                                           *)

OneHolder ==
  \A k, l \in Key :
    /\ HostOf(k) = HostOf(l) /\ PurposeOf(k) = PurposeOf(l)
    /\ dom[k].state \in Holding /\ dom[l].state \in Holding
    => k = l

OneCanonical ==
  \A k, l \in Key :
    /\ OrgOf(k) = OrgOf(l)
    /\ dom[k].role = "canonical" /\ dom[l].role = "canonical"
    /\ dom[k].state \in NonTerminal /\ dom[l].state \in NonTerminal
    => k = l

Claimed(o, p) == {k \in Key : OrgOf(k) = o /\ PurposeOf(k) = p /\ dom[k].state \in NonTerminal}

WithinCaps ==
  \A o \in Org, p \in Purpose :
    Cardinality(Claimed(o, p)) <= (IF p = "web" THEN WebCap ELSE MailCap)

Indexes == OneHolder /\ OneCanonical /\ WithinCaps

-------------------------------------------------------------------------------
Init ==
  /\ dom = [k \in Key |-> NoRow]
  /\ active = [o \in Org |-> TRUE]

(* One committed transaction of one organization's rows.                   *)
Transaction(o) ==
  /\ dom' \in [Key -> Row]
  /\ \A k \in Key :
       \/ dom'[k] = dom[k]
       \/ /\ OrgOf(k) = o
          /\ \/ InsertAccepted(PurposeOf(k), dom[k], dom'[k])
             \/ UpdateAccepted(PurposeOf(k), dom[k], dom'[k], active[o])
  /\ Indexes'
  /\ UNCHANGED active

(* A slip: a deadline passes into a value no guard knows.                  *)
GraceRunsOutByName(k) ==
  /\ dom[k].grace = "running"
  /\ dom' = [dom EXCEPT ![k].grace = "elapsed"]
  /\ UNCHANGED active

(* The clock passes a row's grace_ends_at, or its expires_at (which no     *)
(* guard reads on a row that is no longer pending).                        *)
GraceRunsOut(k) ==
  /\ dom[k].grace = "running"
  /\ dom' = [dom EXCEPT ![k].grace = "over"]
  /\ UNCHANGED active

ExpiryPasses(k) ==
  /\ dom[k].state = "pending"
  /\ ~dom[k].expired
  /\ dom' = [dom EXCEPT ![k].expired = TRUE]
  /\ UNCHANGED active

(* A minuted lifecycle event closes the organization, or revives it.       *)
LifecycleEvent(o) ==
  /\ active' = [active EXCEPT ![o] = ~@]
  /\ UNCHANGED dom

Next ==
  \/ \E o \in Org : Transaction(o) \/ LifecycleEvent(o)
  \/ \E k \in Key : GraceRunsOut(k) \/ ExpiryPasses(k)

Spec == Init /\ [][Next]_vars

-------------------------------------------------------------------------------
(* Next constrains dom' and does not enumerate it.  One statement at a     *)
(* time can be enumerated: any values a writer may propose for one slot.   *)
(* Every behaviour of StatementSpec is one of Spec.                        *)

Insert(k) ==
  \E role \in {"canonical", "alias", "none"} :
    /\ InsertAccepted(PurposeOf(k), dom[k], Inserted(role))
    /\ RoleAllowed(PurposeOf(k), role)
    /\ dom' = [dom EXCEPT ![k] = Inserted(role)]

Update(k) ==
  \E s \in {t \in State : t = dom[k].state \/ LegalEdge(PurposeOf(k), dom[k].state, t)},
     role \in {"canonical", "alias", "none"}, c \in Cause, reason \in BOOLEAN :
    LET new == Stamped(dom[k], [dom[k] EXCEPT !.state = s, !.role = role,
                                              !.cause = c, !.reason = reason])
    IN /\ UpdateAccepted(PurposeOf(k), dom[k], new, active[OrgOf(k)])
       /\ dom' = [dom EXCEPT ![k] = new]

Statement(k) ==
  /\ Insert(k) \/ Update(k)
  /\ Indexes'
  /\ UNCHANGED active

StatementNext ==
  \/ \E k \in Key : Statement(k) \/ GraceRunsOut(k) \/ ExpiryPasses(k)
  \/ \E o \in Org : LifecycleEvent(o)

StatementSpec == Init /\ [][StatementNext]_vars

-------------------------------------------------------------------------------
(* Properties *)

(* Every row has its type, whoever wrote it (organization_domains).        *)
TypeOK ==
  /\ dom \in [Key -> Row]
  /\ active \in [Org -> BOOLEAN]

(* A platform cause stands exactly where the platform's reason does, and   *)
(* only on a row that is being, or has been, released: a tenant's removal  *)
(* is never relabelled and a reason never lingers on a row that serves.    *)
ForcedByReasonOnly ==
  \A k \in Key :
    /\ dom[k].reason <=> dom[k].cause \in ForcedCause
    /\ dom[k].reason => dom[k].state \in {"release_pending", "released"}

(* Without a platform reason, a row waits for its detach only once its     *)
(* whole grace has run out, whichever of lapse, removal and time led there.*)
NoEarlyRelease ==
  \A k \in Key :
    dom[k].state = "release_pending" /\ ~dom[k].reason => dom[k].grace = "over"

(* A deadline exists only on a suspended or exiting row, and every         *)
(* suspended row has one: nothing is parked or lapsed for ever.            *)
GraceOnSuspended ==
  \A k \in Key :
    /\ dom[k].state \in {"lapsed", "parked"} => dom[k].grace # "none"
    /\ dom[k].grace # "none" => dom[k].state \in {"lapsed", "parked", "release_pending", "released"}

(* The cause a release will be filed under is known from the moment the    *)
(* row leaves service, and no serving row carries a stale one.             *)
CauseOnExit ==
  \A k \in Key : dom[k].cause # "none" <=> dom[k].state \in Exit

Evidence == ForcedByReasonOnly /\ NoEarlyRelease /\ GraceOnSuspended /\ CauseOnExit

(* A grace that has run out never starts again while the row is held: only *)
(* a fresh proof (back to verified) or a new claim clears it, so removing  *)
(* a lapsed domain cannot buy it another thirty days.                      *)
GraceNeverRestarts ==
  [][\A k \in Key :
       dom[k].grace = "over" /\ dom'[k].grace # "over"
         => dom'[k].grace = "none" /\ dom'[k].state \in {"verified", "pending"}]_vars

===============================================================================

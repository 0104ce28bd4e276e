---------------------------- MODULE DomainLifecycle ----------------------------
(***************************************************************************)
(* The custom domain service (src/lib/domains/service.ts) at work: tenants *)
(* and the platform operating on their rows, and checkers - the cron sweep *)
(* and "Check now" - running observeAndAdvance.  A check holds no          *)
(* transaction across the network: it reads the claim group, looks the     *)
(* proof up, calls the hosting provider, and only then re-reads the rows   *)
(* under lock and applies what it learned to those that did not move.      *)
(* Everything else may happen in between.                                  *)
(*                                                                         *)
(* The database is DomainGuards: G!Stamped is what its trigger adds to a   *)
(* write, and the property G!Spec says it accepts every write made here.   *)
(***************************************************************************)
EXTENDS Naturals, FiniteSets

CONSTANTS
  Org, Host, WebCap,
  ClaimName,  \* a name and its www. share one
  ClaimOf,    \* the claim of a host, [Host -> ClaimName]
  Checker,    \* concurrent invocations of observeAndAdvance or reconnectClaim
  MaxId,      \* rows a slot sees: bounds how often a host is claimed anew
  Holdable,   \* hosts the platform may put on hold
  Droppable,  \* hosts the provider may lose
  Closable    \* organizations a lifecycle event may close

ASSUME ClaimAssumption == ClaimOf \in [Host -> ClaimName]
ASSUME BoundAssumption == /\ WebCap \in Nat /\ IsFiniteSet(Host) /\ MaxId \in Nat
                          /\ Holdable \subseteq Host /\ Droppable \subseteq Host
                          /\ Closable \subseteq Org

VARIABLES
  dom,        \* organization_domains, as in DomainGuards (web rows only)
  active,     \* organizations.lifecycle_status = 'active'
  id,         \* the identity of the row in each slot: a new claim is a new row
  hold,       \* slots whose row has a platform_hold
  txt,        \* <<organization, claim>> whose current proof token is in the DNS
  project,    \* hosts attached to the hosting provider's project
  checker     \* the checks in flight

vars == <<dom, active, id, hold, txt, project, checker>>

G == INSTANCE DomainGuards WITH Purpose <- {"web"}, MailCap <- 0

Slot(o, h) == <<o, h, "web">>

(* The table old after the rows of new are written.                        *)
Written(old, new) == [s \in DOMAIN old |-> IF s \in DOMAIN new THEN new[s] ELSE old[s]]

HostsOf(c) == {h \in Host : ClaimOf[h] = c}
Open(d, o) == {h \in Host : d[Slot(o, h)].state \in G!NonTerminal}
Canonicals(d, o) == {h \in Open(d, o) : d[Slot(o, h)].role = "canonical"}
LiveUnheld(d, o) == {h \in Open(d, o) : d[Slot(o, h)].state = "live" /\ Slot(o, h) \notin hold}

(* A slip: the unique violation is not expected.                           *)
HeldNowhere(o, h) == FALSE

HeldElsewhere(o, h) == \E p \in Org \ {o} : dom[Slot(p, h)].state \in G!Holding

-------------------------------------------------------------------------------
(* transitionDomain: one row along one edge of state.ts, with the cause    *)
(* releaseCauseFor gives it, as the trigger stamps it.                     *)

NextState(s, event) ==
  CASE event = "proof_ok"      -> "verified"
    [] event = "reconnect"     -> "verified"
    [] event = "expire"        -> "expired"
    [] event = "attach_start"  -> "attach_pending"
    [] event = "attach_ok"     -> "attached"
    [] event = "live_ok"       -> "live"
    [] event = "live_lost"     -> "attached"
    [] event = "proof_lost"    -> "lapsed"
    [] event = "grace_elapsed" -> "release_pending"
    [] event = "detach_ok"     -> "released"
    [] event = "remove"        -> IF s \in {"pending", "verified"} THEN "released" ELSE "parked"
    [] event = "force_release" -> IF s \in {"pending", "verified"} THEN "released" ELSE "release_pending"

CauseFor(row, event, given) ==
  CASE event \in {"remove", "force_release"} -> given
    [] event = "grace_elapsed" -> IF row.state = "lapsed" THEN "lapsed_grace" ELSE row.cause
    [] OTHER -> row.cause

Transition(row, event, given) ==
  G!Stamped(row, [row EXCEPT !.state = NextState(row.state, event),
                             !.cause = CauseFor(row, event, given),
                             !.reason = @ \/ event = "force_release"])

(* The exit of a removal or a force-release gives the canonical role back. *)
Demoted(row) == [row EXCEPT !.role = "alias"]

-------------------------------------------------------------------------------
(* Checks in flight *)

Idle == [pc |-> "idle"]

(* seen: the snapshot's rows by host, their state and identity.            *)
(* ev: what the provider and the probe said of each.                       *)
Check(pc, kind, o, c, closed, pass, proof, hosts) ==
  [pc |-> pc, kind |-> kind, org |-> o, claim |-> c, closed |-> closed,
   pass |-> pass, proof |-> proof,
   seen |-> [h \in hosts |-> [state |-> dom[Slot(o, h)].state, id |-> id[Slot(o, h)]]],
   ev |-> [h \in hosts |-> "none"]]

ProofStates == {"pending", "verified", "attach_pending", "attached", "live", "lapsed"}

(* The hosts whose row is still the one the check saw, and of these the    *)
(* ones whose state is, too.                                               *)
Still(ck) == {h \in DOMAIN ck.seen : h \in Open(dom, ck.org)
                                     /\ id[Slot(ck.org, h)] = ck.seen[h].id}
Unmoved(ck) == {h \in Still(ck) : dom[Slot(ck.org, h)].state = ck.seen[h].state}

(* Slips of CallFor: a release waits for the proof too; an unknown host is *)
(* not put back.                                                           *)
CallForProved(ck, h) ==
  LET s == ck.seen[h].state  e == ck.ev[h] IN
  CASE ~ck.closed /\ ck.proof = "present" /\ s = "attach_pending" /\ e = "none" -> "add"
    [] ~ck.closed /\ ck.proof = "present" /\ s \in {"attached", "live"} /\ e = "none" -> "get"
    [] ~ck.closed /\ ck.proof = "present" /\ s \in {"attached", "live"} /\ e = "missing" -> "add"
    [] ck.proof = "present" /\ s = "release_pending" /\ e = "none" -> "remove"
    [] OTHER -> "done"

CallForKnown(ck, h) ==
  LET s == ck.seen[h].state  e == ck.ev[h] IN
  CASE ~ck.closed /\ ck.proof = "present" /\ s = "attach_pending" /\ e = "none" -> "add"
    [] ~ck.closed /\ ck.proof = "present" /\ s \in {"attached", "live"} /\ e = "none" -> "get"
    [] s = "release_pending" /\ e = "none" -> "remove"
    [] OTHER -> "done"

(* The provider call a row still waits for, as gatherEvidence orders them: *)
(* none without a proof, except that a release needs no proof.             *)
CallFor(ck, h) ==
  LET s == ck.seen[h].state  e == ck.ev[h] IN
  CASE ~ck.closed /\ ck.proof = "present" /\ s = "attach_pending" /\ e = "none" -> "add"
    [] ~ck.closed /\ ck.proof = "present" /\ s \in {"attached", "live"} /\ e = "none" -> "get"
    [] ~ck.closed /\ ck.proof = "present" /\ s \in {"attached", "live"} /\ e = "missing" -> "add"
    [] s = "release_pending" /\ e = "none" -> "remove"
    [] OTHER -> "done"

Gathered(ck) == ck.pc = "call" /\ \A h \in DOMAIN ck.seen : CallFor(ck, h) = "done"

(* Step 1 of observeAndAdvance: the snapshot.                              *)
Begin(k, o, c, closed, hosts) ==
  LET look == ~closed /\ \E h \in hosts : dom[Slot(o, h)].state \in ProofStates IN
  /\ checker[k].pc = "idle"
  /\ hosts # {}
  /\ checker' = [checker EXCEPT ![k] =
       Check(IF look THEN "lookup" ELSE "call", "check", o, c, closed, 1, "none", hosts)]
  /\ UNCHANGED <<dom, active, id, hold, txt, project>>

(* The sweep takes the rows it leased, of a closed organization to remove  *)
(* them.  The lease is next_check_at pushed out, and every other write to  *)
(* the row sets that column too, so it is not relied on to keep two sweeps *)
(* off one row.                                                            *)
BeginSweep(k, o, c) ==
  \E hosts \in SUBSET (HostsOf(c) \cap Open(dom, o)) : Begin(k, o, c, ~active[o], hosts)

(* "Check now" takes the whole claim.                                      *)
CheckNow(k, o, c) == Begin(k, o, c, FALSE, HostsOf(c) \cap Open(dom, o))

(* reconnectClaim reads the parked rows, and checks their proof first.     *)
BeginReconnect(k, o, c) ==
  LET parked == {h \in HostsOf(c) : dom[Slot(o, h)].state = "parked"} IN
  /\ checker[k].pc = "idle"
  /\ parked # {}
  /\ checker' = [checker EXCEPT ![k] =
       Check("lookup", "reconnect", o, c, FALSE, 1, "none", parked)]
  /\ UNCHANGED <<dom, active, id, hold, txt, project>>

(* The TXT lookup.  A timeout or two resolvers that disagree is "unknown". *)
(* When every row seen has been claimed anew since, the token looked for   *)
(* is an old one, which may or may not still be in the DNS.                *)
Answers(ck) ==
  {"unknown"}
    \cup (IF <<ck.org, ck.claim>> \in txt THEN {"present"} ELSE {"absent"})
    \cup (IF \A h \in DOMAIN ck.seen : id[Slot(ck.org, h)] # ck.seen[h].id
          THEN {"present", "absent"} ELSE {})

Lookup(k) ==
  LET ck == checker[k] IN
  /\ ck.pc = "lookup"
  /\ \E answer \in Answers(ck) :
       checker' = [checker EXCEPT ![k] =
         CASE ck.kind # "reconnect" -> [ck EXCEPT !.pc = "call", !.proof = answer]
           [] ck.kind = "reconnect" /\ answer = "present" -> [ck EXCEPT !.pc = "reconnect"]
           [] OTHER -> Idle]
  /\ UNCHANGED <<dom, active, id, hold, txt, project>>

(* A slip: an outcome of the probe nobody handles.                         *)
ProbesTimeout(attached) == {"negative", "timeout"} \cup (IF attached THEN {"ack"} ELSE {})

Probes(attached) == {"negative", "unknown"} \cup (IF attached THEN {"ack"} ELSE {})
Learn(k, h, e) == checker' = [checker EXCEPT ![k].ev[h] = e]
CallDue(k, h, call) ==
  /\ checker[k].pc = "call"
  /\ h \in DOMAIN checker[k].seen
  /\ CallFor(checker[k], h) = call

(* addDomain is idempotent.  A failed call may still have taken effect:    *)
(* the answer, not the request, was lost.  A serving host is then probed.  *)
AddDomain(k, h) ==
  /\ CallDue(k, h, "add")
  /\ \E took \in BOOLEAN :
       /\ project' = IF took THEN project \cup {h} ELSE project
       /\ IF checker[k].seen[h].state = "attach_pending"
          THEN \E e \in IF took THEN {"ok", "failed"} ELSE {"failed"} : Learn(k, h, e)
          ELSE \E e \in Probes(h \in project') : Learn(k, h, e)
  /\ UNCHANGED <<dom, active, id, hold, txt>>

(* getDomain, then the probe of a host the provider knows (or whose record *)
(* could not be read).  An unknown host is put back first.                 *)
GetDomain(k, h) ==
  /\ CallDue(k, h, "get")
  /\ \E e \in Probes(h \in project) \cup (IF h \in project THEN {} ELSE {"missing"}) : Learn(k, h, e)
  /\ UNCHANGED <<dom, active, id, hold, txt, project>>

RemoveDomain(k, h) ==
  /\ CallDue(k, h, "remove")
  /\ \E took \in BOOLEAN :
       /\ project' = IF took THEN project \ {h} ELSE project
       /\ \E e \in IF took THEN {"ok", "failed"} ELSE {"failed"} : Learn(k, h, e)
  /\ UNCHANGED <<dom, active, id, hold, txt>>

-------------------------------------------------------------------------------
(* Step 3: applyRow.  The rows a locked row may become; a proof seen       *)
(* absent loses the proof when the streak says so (module ProofStreak).    *)

KeepOrLose(row) == {row, Transition(row, "proof_lost", "none")}

ApplyProved(row, proof, present) ==
  CASE proof = "present" -> present
    [] proof = "absent" -> KeepOrLose(row)
    [] OTHER -> {row}

ApplyRow(o, h, row, proof, e) ==
  CASE row.state = "pending" ->
         {IF proof = "present" /\ ~HeldElsewhere(o, h) THEN Transition(row, "proof_ok", "none")
          ELSE IF proof = "absent" /\ row.expired THEN Transition(row, "expire", "none")
          ELSE row}
    [] row.state = "verified" -> ApplyProved(row, proof, {Transition(row, "attach_start", "none")})
    [] row.state = "attach_pending" ->
         ApplyProved(row, proof, {IF e = "ok" THEN Transition(row, "attach_ok", "none") ELSE row})
    [] row.state = "attached" ->
         ApplyProved(row, proof, {IF e = "ack" THEN Transition(row, "live_ok", "none") ELSE row})
    [] row.state = "live" ->
         ApplyProved(row, proof, {row} \cup
           (IF e = "negative" THEN {Transition(row, "live_lost", "none")} ELSE {}))
    [] row.state = "lapsed" ->
         {IF proof = "present" THEN Transition(row, "proof_ok", "none")
          ELSE IF row.grace = "over" THEN Transition(row, "grace_elapsed", "none")
          ELSE row}
    [] row.state = "parked" ->
         {IF row.grace = "over" THEN Transition(row, "grace_elapsed", "none") ELSE row}
    [] row.state = "release_pending" ->
         {IF e = "ok" THEN Transition(row, "detach_ok", "none") ELSE row}

(* A slip: the canonical role is not given back.                           *)
RemovedWithRole(row, cause) == Transition(row, "remove", cause)

Removed(row, cause) == Demoted(Transition(row, "remove", cause))

(* A slip: only rows that were never attached are closed.                  *)
ClosesUnattached(ck, h) == ck.closed /\ ck.seen[h].state \in {"pending", "verified"}

ClosesRow(ck, h) == ck.closed /\ ck.seen[h].state \notin {"parked", "release_pending"}

Outcomes(ck, h) ==
  LET row == dom[Slot(ck.org, h)] IN
  IF ClosesRow(ck, h) THEN {Removed(row, "org_closed")}
  ELSE ApplyRow(ck.org, h, row, ck.proof, ck.ev[h])

(* Slips of EnsureCanonical: it does not ask; it asks whether any row is   *)
(* left, not whether one is canonical.                                     *)
EnsureCanonicalAlways(d, o, hosts) ==
  LET candidates == LiveUnheld(d, o) \cap hosts IN
  IF candidates = {} THEN {d}
  ELSE {[d EXCEPT ![Slot(o, h)].role = "canonical"] : h \in candidates}

EnsureCanonicalAnyRow(d, o, hosts) ==
  LET candidates == LiveUnheld(d, o) \cap hosts IN
  IF Open(d, o) # {} \/ candidates = {} THEN {d}
  ELSE {[d EXCEPT ![Slot(o, h)].role = "canonical"] : h \in candidates}

(* ensureCanonical: an organization left without any canonical host gives  *)
(* the role to a live, unheld host of the rows just checked.               *)
EnsureCanonical(d, o, hosts) ==
  LET candidates == LiveUnheld(d, o) \cap hosts IN
  IF Canonicals(d, o) # {} \/ candidates = {} THEN {d}
  ELSE {[d EXCEPT ![Slot(o, h)].role = "canonical"] : h \in candidates}

AfterApply(ck, d, moved) ==
  LET follow == {h \in moved : dom[Slot(ck.org, h)].state = "verified"
                               /\ d[Slot(ck.org, h)].state = "attach_pending"}
  IN IF ck.pass = 1 /\ follow # {}
     THEN [ck EXCEPT !.pc = "reread", !.pass = 2,
                     !.seen = [h \in follow |-> ck.seen[h]],
                     !.ev = [h \in follow |-> "none"]]
     ELSE Idle

Apply(k) ==
  LET ck == checker[k]
      hosts == Unmoved(ck)
      slots == {Slot(ck.org, h) : h \in hosts}
  IN
  /\ Gathered(ck)
  /\ ck.closed /\ active[ck.org] => \A h \in hosts : ~ClosesRow(ck, h)
  /\ \E f \in {g \in [slots -> UNION {Outcomes(ck, h) : h \in hosts}] :
                 \A h \in hosts : g[Slot(ck.org, h)] \in Outcomes(ck, h)} :
       \E d \in EnsureCanonical(Written(dom, f), ck.org, Still(ck)) :
         /\ dom' = d
         /\ checker' = [checker EXCEPT ![k] = AfterApply(ck, d, hosts)]
  /\ UNCHANGED <<active, id, hold, txt, project>>

(* The organization reopened since the snapshot: the guard refuses         *)
(* org_closed, the transaction rolls back and the sweep moves on.          *)
ApplyRefused(k) ==
  LET ck == checker[k] IN
  /\ Gathered(ck)
  /\ ck.closed /\ active[ck.org]
  /\ \E h \in Unmoved(ck) : ClosesRow(ck, h)
  /\ checker' = [checker EXCEPT ![k] = Idle]
  /\ UNCHANGED <<dom, active, id, hold, txt, project>>

(* Pass two: the rows that just committed attach_pending, as they are now, *)
(* with the proof already seen.                                            *)
Reread(k) ==
  LET ck == checker[k] IN
  /\ ck.pc = "reread"
  /\ checker' = [checker EXCEPT ![k] =
       IF Still(ck) = {} THEN Idle
       ELSE Check("call", ck.kind, ck.org, ck.claim, FALSE, 2, ck.proof, Still(ck))]
  /\ UNCHANGED <<dom, active, id, hold, txt, project>>

(* A slip: the rows are not locked and read again.                         *)
ApplyReconnectBlind(k) ==
  LET ck == checker[k] IN
  /\ ck.pc = "reconnect"
  /\ dom' = Written(dom, [s \in {Slot(ck.org, h) : h \in DOMAIN ck.seen} |->
                            Transition(dom[s], "reconnect", "none")])
  /\ checker' = [checker EXCEPT ![k] = Idle]
  /\ UNCHANGED <<active, id, hold, txt, project>>

(* The last step of reconnectClaim: as many parked rows as the snapshot    *)
(* had, or the request is stale.                                           *)
ApplyReconnect(k) ==
  LET ck == checker[k]
      parked == {Slot(ck.org, h) : h \in {g \in HostsOf(ck.claim) : dom[Slot(ck.org, g)].state = "parked"}}
  IN
  /\ ck.pc = "reconnect"
  /\ dom' = IF Cardinality(parked) = Cardinality(DOMAIN ck.seen)
            THEN Written(dom, [s \in parked |-> Transition(dom[s], "reconnect", "none")])
            ELSE dom
  /\ checker' = [checker EXCEPT ![k] = Idle]
  /\ UNCHANGED <<active, id, hold, txt, project>>

(* The invocation dies: its transaction and its answers are lost.          *)
Crash(k) ==
  /\ checker[k].pc # "idle"
  /\ checker' = [checker EXCEPT ![k] = Idle]
  /\ UNCHANGED <<dom, active, id, hold, txt, project>>

-------------------------------------------------------------------------------
(* Tenants, the platform, the DNS, the clock *)

(* claimDomain: a pending row for every host of the claim not held yet.  A *)
(* group with no row left gets a new token, so its old TXT proves nothing. *)
ClaimDomain(o, c) ==
  LET missing == HostsOf(c) \ Open(dom, o) IN
  /\ missing # {}
  /\ Cardinality(Open(dom, o)) + Cardinality(missing) <= WebCap
  /\ \A h \in missing : id[Slot(o, h)] < MaxId
  /\ \E designated \in HostsOf(c) :
       LET role(h) == IF Canonicals(dom, o) = {} /\ h = designated THEN "canonical" ELSE "alias"
       IN dom' = Written(dom, [s \in {Slot(o, h) : h \in missing} |-> G!Inserted(role(s[2]))])
  /\ id' = Written(id, [s \in {Slot(o, h) : h \in missing} |-> id[s] + 1])
  /\ hold' = hold \ {Slot(o, h) : h \in missing}
  /\ txt' = IF missing = HostsOf(c) THEN txt \ {<<o, c>>} ELSE txt
  /\ UNCHANGED <<active, project, checker>>

(* removeClaim: each row along its own edge; a live host elsewhere takes   *)
(* the canonical role over when the removal would strand it.               *)
RemoveClaim(o, c) ==
  LET removable == {h \in HostsOf(c) \cap Open(dom, o) :
                      dom[Slot(o, h)].state \notin {"parked", "release_pending"}}
      elsewhere == LiveUnheld(dom, o) \ HostsOf(c)
      d == Written(dom, [s \in {Slot(o, h) : h \in removable} |-> Removed(dom[s], "removed")])
  IN
  /\ removable # {}
  /\ IF removable \cap Canonicals(dom, o) # {} /\ elsewhere # {}
     THEN \E h \in elsewhere : dom' = [d EXCEPT ![Slot(o, h)].role = "canonical"]
     ELSE dom' = d
  /\ UNCHANGED <<active, id, hold, txt, project, checker>>

ChangeCanonical(o, h) ==
  /\ h \in LiveUnheld(dom, o)
  /\ h \notin Canonicals(dom, o)
  /\ dom' = [Written(dom, [s \in {Slot(o, g) : g \in Canonicals(dom, o)} |-> Demoted(dom[s])])
               EXCEPT ![Slot(o, h)].role = "canonical"]
  /\ UNCHANGED <<active, id, hold, txt, project, checker>>

SetDomainHold(o, h) ==
  /\ h \in Holdable \cap Open(dom, o)
  /\ hold' = IF Slot(o, h) \in hold THEN hold \ {Slot(o, h)} ELSE hold \cup {Slot(o, h)}
  /\ UNCHANGED <<dom, active, id, txt, project, checker>>

ForceRelease(o, h) ==
  /\ h \in Open(dom, o)
  /\ dom[Slot(o, h)].state # "release_pending"
  /\ \E cause \in G!ForcedCause :
       dom' = [dom EXCEPT ![Slot(o, h)] = Demoted(Transition(@, "force_release", cause))]
  /\ UNCHANGED <<active, id, hold, txt, project, checker>>

(* The church publishes the TXT record of its current token, or drops it.  *)
Publish(o, c) ==
  /\ HostsOf(c) \cap Open(dom, o) # {}
  /\ txt' = IF <<o, c>> \in txt THEN txt \ {<<o, c>>} ELSE txt \cup {<<o, c>>}
  /\ UNCHANGED <<dom, active, id, hold, project, checker>>

Clock(o, h) ==
  /\ G!GraceRunsOut(Slot(o, h)) \/ G!ExpiryPasses(Slot(o, h))
  /\ UNCHANGED <<id, hold, txt, project, checker>>

LifecycleEvent(o) ==
  /\ o \in Closable
  /\ G!LifecycleEvent(o)
  /\ UNCHANGED <<id, hold, txt, project, checker>>

(* The provider loses a host: what the reconciliation in gatherEvidence    *)
(* repairs.                                                                *)
ProviderDrops(h) ==
  /\ h \in Droppable \cap project
  /\ project' = project \ {h}
  /\ UNCHANGED <<dom, active, id, hold, txt, checker>>

-------------------------------------------------------------------------------
Init ==
  /\ G!Init
  /\ id = [s \in G!Key |-> 0]
  /\ hold = {} /\ txt = {} /\ project = {}
  /\ checker = [k \in Checker |-> Idle]

Advance(k) ==
  \/ Lookup(k) \/ Apply(k) \/ ApplyRefused(k) \/ Reread(k) \/ ApplyReconnect(k)
  \/ \E h \in Host : AddDomain(k, h) \/ GetDomain(k, h) \/ RemoveDomain(k, h)

Next ==
  \/ \E k \in Checker : Advance(k) \/ Crash(k)
  \/ \E k \in Checker, o \in Org, c \in ClaimName :
       BeginSweep(k, o, c) \/ CheckNow(k, o, c) \/ BeginReconnect(k, o, c)
  \/ \E o \in Org, c \in ClaimName : ClaimDomain(o, c) \/ RemoveClaim(o, c) \/ Publish(o, c)
  \/ \E o \in Org, h \in Host : ChangeCanonical(o, h) \/ SetDomainHold(o, h)
                                \/ ForceRelease(o, h) \/ Clock(o, h)
  \/ \E o \in Org : LifecycleEvent(o)
  \/ \E h \in Host : ProviderDrops(h)

Spec == Init /\ [][Next]_vars

-------------------------------------------------------------------------------
(* Fairness.  Cron runs the sweep every five minutes and takes the rows    *)
(* that are due, longest first; an invocation that does not die finishes,  *)
(* and invocations do not die for ever (a step that ends a check may look  *)
(* like a crash, and remains); the DNS and the provider do not stay silent *)
(* for ever; an organization closes and reopens finitely often.            *)

Sweep(k, o, h) ==
  /\ \E c \in ClaimName : BeginSweep(k, o, c)
  /\ h \in DOMAIN checker'[k].seen

DefiniteLookup(k) == Lookup(k) /\ checker[k].kind # "reconnect" /\ checker'[k].proof # "unknown"
AttachTakes(k, h) == AddDomain(k, h) /\ h \in project'
ReadsProject(k, h) == GetDomain(k, h) /\ (checker'[k].ev[h] = "missing" <=> h \notin project)
DetachTakes(k, h) == RemoveDomain(k, h) /\ checker'[k].ev[h] = "ok"

Fairness ==
  /\ \A k \in Checker : WF_vars(Advance(k))
  /\ \A o \in Org, h \in Host :
       /\ SF_vars(\E k \in Checker : Sweep(k, o, h))
       /\ WF_vars(Clock(o, h))
  /\ SF_vars(\E k \in Checker : DefiniteLookup(k))
  /\ \A h \in Host :
       /\ SF_vars(\E k \in Checker : AttachTakes(k, h))
       /\ SF_vars(\E k \in Checker : ReadsProject(k, h))
       /\ SF_vars(\E k \in Checker : DetachTakes(k, h))
  /\ <>[][\A k \in Checker : Crash(k) => Advance(k)]_vars
  /\ <>[][UNCHANGED active]_vars

FairSpec == Spec /\ Fairness

(* The part of it that has the sweep come round: enough where the DNS, the *)
(* provider and the organizations may do as they like.                     *)
SweepFairness ==
  /\ \A k \in Checker : WF_vars(Advance(k))
  /\ \A o \in Org, h \in Host : SF_vars(\E k \in Checker : Sweep(k, o, h))
  /\ <>[][\A k \in Checker : Crash(k) => Advance(k)]_vars

SweepSpec == Spec /\ SweepFairness

-------------------------------------------------------------------------------
(* Properties *)

CheckRecord ==
  [pc: {"lookup", "call", "reread", "reconnect"},
   kind: {"check", "reconnect"},
   org: Org, claim: ClaimName, closed: BOOLEAN, pass: {1, 2},
   proof: {"none", "present", "absent", "unknown"},
   seen: UNION {[hs -> [state: G!NonTerminal, id: 1..MaxId]] : hs \in SUBSET Host},
   ev: UNION {[hs -> {"none", "ok", "failed", "ack", "negative", "unknown", "missing"}]
                : hs \in SUBSET Host}]

(* Every variable has its type: the rows, the provider's project, what a    *)
(* check has seen (organization_domains, observeAndAdvance).               *)
TypeOK ==
  /\ G!TypeOK
  /\ id \in [G!Key -> 0..MaxId]
  /\ hold \subseteq G!Key
  /\ txt \subseteq Org \X ClaimName
  /\ project \subseteq Host
  /\ checker \in [Checker -> CheckRecord \cup {Idle}]

(* Every write of the service is one the database accepts: the trigger's   *)
(* edges, evidence and stamps, the indexes and the cap refuse nothing the  *)
(* code attempts, late answers and all.                                    *)
WritesAccepted == G!Spec

(* A domain on its way out never keeps the organization's canonical role:  *)
(* the role is handed back by the write that removes the row, so a live    *)
(* alias can take over (service.ts, removeClaim and forceReleaseDomain).   *)
ParkedNeverCanonical ==
  \A s \in G!Key : dom[s].state \in {"parked", "release_pending"} /\ dom[s].cause # "lapsed_grace"
                     => dom[s].role = "alias"

Accounted(h) == \E o \in Org : dom[Slot(o, h)].state \in G!Holding

(* A host is left without a row only by a release straight from verified,  *)
(* which does not detach; every other way out detaches first.              *)
(* (One check at a time: see the README for what overlapping checks add.)  *)
OrphanOnlyFromVerified ==
  [][\A h \in Host :
       h \in project' /\ ~Accounted(h)' =>
         \/ h \in project /\ ~Accounted(h)
         \/ \E o \in Org : dom[Slot(o, h)].state = "verified"
                         /\ dom'[Slot(o, h)].state = "released"]_vars

(* Liveness.  A release is retried until the provider has let go.          *)
ReleaseCompletes ==
  \A s \in G!Key : dom[s].state = "release_pending" ~> dom[s].state = "released"

(* A live host the provider lost is put back, or its row moves on: no      *)
(* serving row points at a host that stays unattached while its proof      *)
(* stands (reconciliation).                                                *)
SelfHeals ==
  \A o \in Org, h \in Host :
    (dom[Slot(o, h)].state = "live" /\ h \notin project)
      ~> (dom[Slot(o, h)].state # "live" \/ h \in project \/ <<o, ClaimOf[h]>> \notin txt)

(* A serving host of an organization without any canonical host ends up    *)
(* with one (ensureCanonical is called by every check): no church is left  *)
(* dark by the order in which its hosts were removed and reconnected.      *)
CanonicalRepaired ==
  \A o \in Org, h \in Host :
    (h \in LiveUnheld(dom, o) /\ Canonicals(dom, o) = {})
      ~> (h \notin LiveUnheld(dom, o) \/ Canonicals(dom, o) # {})

(* A closed organization's site leaves the web.                            *)
ClosedLeavesService ==
  \A o \in Org, h \in Host :
    (~active[o] /\ dom[Slot(o, h)].state = "live")
      ~> (active[o] \/ dom[Slot(o, h)].state # "live")

===============================================================================

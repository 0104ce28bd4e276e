# A formal model of PresbyPortal

PresbyPortal is a multi-tenant church platform: a Next.js application over one
Postgres database, with row-level security per organization, a few cron
endpoints (`email-queue`, `giving` and `domains` every five minutes,
`maintenance` once a day) and three outside systems that answer late or not at
all: the DNS and a hosting provider (custom domains), a mail provider (email),
a payment provider (giving). Most of its requests are one transaction under a
lock and are well served by tests. What tests hardly reach is what spans
transactions: a decision taken on rows that moved while the network was asked,
two cron invocations over one row, an edge that a trigger and a table of
transitions describe twice, a page that was opened yesterday, a date that falls
due with nobody writing that day. The model is about those.

Paths below are relative to `src/`, the repository.

## 1. The system

Hard behaviour is marked **C** (concurrency), **F** (failure and retry), **O**
(ordering), **T** (time).

| Component | State it keeps | Operations | Hard | What makes it correct |
|---|---|---|---|---|
| Custom domains, database guards (`drizzle/0057`) | `organization_domains`: state, role, release cause, grace deadline, expiry, reason | any insert or update by any of three database roles | O T | an edge, its cause, its reason and its deadline always agree; one holder per name; one canonical host; caps |
| Custom domains, service (`src/lib/domains/service.ts`) | the same rows; the provider's project | claim, remove, reconnect, change canonical, hold, force-release; `observeAndAdvance` by cron and by "Check now" | C F O T | no late answer writes a row the guards refuse; the project and the rows agree in the end; a church with a live host has a canonical one; no host outlives its row |
| Custom domains, miss streaks (`debounce.ts`) | `proof_miss_count`, `proofMissSince`, `probe_miss_count` | one step per applied check | O T | a site goes dark on the evidence the policy asks for, and does go dark |
| Email queue (`lib/email/queue.ts`) | `email_queue` | insert, inline send, worker batch, cancel, admin retry, delivery webhook | C F T | claims never share a row, nothing dropped early, what is over stays over, one-time links gone when a row is over, every message ends |
| Giving ingest (`drizzle/0055`, `lib/giving/ingest`) | provider event inbox, gifts, reversals, subscriptions, settlements | webhook insert, claim, apply, finish, requeue, purge | C F O | each event applied once; out-of-order events wait for what they refer to; net of a gift stays within its amount |
| Giving checkout, connection, settings | intents, connection status | create, attach session, expire, disconnect | O T | no checkout on a connection that is not live |
| Giving donors, desk, statements (`0056`) | gifts, donors, statements | record, void, issue, supersede | O | a statement that no longer matches its gifts is known to be stale |
| Reimbursements and treasury (`0073`, `0074`) | requests, receipts, waivers, payments, events; seats and keys | draft, submit, approve, return, withdraw, void, waive, pay, reverse | C O | nobody approves his own request, nobody is behind both the approval and the payment; what is paid is what the approver saw |
| Invitations, sign-in links, connecting accounts (`0059`, `0065`, `0066`) | invitations and their chains, person-account links | issue, resend, revoke, accept by token or in place, connect | C O T | an account is one person, linked through an address the record carries; nobody is connected while their congregation waits for an answer |
| Designations (`0060`) | role grants held through a designation | apply, revoke | C | the count of holders that acceptance reads is the truth |
| Roll and Session approval (`0012`, `0061`-`0063`) | roll actions; `memberships.current_roll` and its end | propose, decide, withdraw, enrol, remove, void; daily reconcile | C O T | the membership ends as the register says, by the latest removal; the cache follows the replay |
| Membership standing, participants | derived | none of their own | | the SQL and the TypeScript derivations agree |
| Organization lifecycle, affiliation (`0044`, `0045`) | lifecycle events, affiliations | record an event, transfer | O | an organization has one open affiliation |
| Statistical returns, publications, grants (`0046`-`0052`) | returns, publications, submission grants | submit, approve, publish, withdraw | O T | a published figure is an approved one |
| Officers, staff, groups, credentials, grants | terms, seats, grants | appoint, end | | terms do not overlap |
| Sign-in, lockout, two-factor (`auth.ts`, `lib/auth`) | users, tokens, TOTP enrolments | sign in, enrol, verify, reset | C T | the secret on the page is the one stored; a grant stands for a checked code |
| People, contact methods, person emails (`0064`) | people, addresses | edit, promote, retire | C | one primary address |
| Person photos, blobs (`0072`, `0078`) | photo rows, blobs | upload, replace, remove | F O | no row without its blob, no blob served to the wrong audience |
| Published sites and site ingest | published content | read by host, ingest | | only what is published is served |
| Events, parishes, careers, help contact, tickets, features, audit, maintenance | their tables | edits, daily deletions | | local |
| User interface, help, branding | none | | | |

How they meet. The lifecycle event of an organization closes its custom domains
at the next sweep. A custom domain's state decides which host serves a church's
site. Invitations, domain notices, reimbursement notices and account messages
are rows of the email queue; an invitation's revocation cancels its row. The
holder counts that invitations check come from designations. The roll's
memberships decide whom an organization may invite to sign in. Seats of officers
decide who may approve a request, and a pastor's seat who may not be on a roll.

## 2. Plan

Done in this order, the behaviour that matters most first:

1. `DomainGuards`, the abstract specification of the custom domain rows, and
   `DomainLifecycle`, the service with its network calls, which implements it,
   both with proofs.
2. `ProofStreak`, the evidence a loss rests on, with proofs.
3. `EmailQueue`, with proofs.
4. `GivingLedger`, what the giving tables promise, and `GivingIngest`, the inbox
   that fills them out of order and twice, which implements it, with proofs.
5. `ReimbursementGuards` and `Reimbursement`, in the same relation, with proofs.
6. `Roll`, with proofs.
7. `SignInLinks`, with proofs.

Every safety property that a run checks is now a theorem, too. Left, most useful
first: a module for two-factor enrolment (one pending secret, two renders, an
enrolment that expires while it is completed; recovery codes regenerated twice
at once) and one for the designations an invitation may confer; what overlapping
checks of one claim can and cannot do to the provider's project, as a theorem
beside `OrphanHolds`.

## 3. Modules

| Module | Models | Holds |
|---|---|---|
| `DomainGuards` | triggers, CHECKs and indexes of `drizzle/0057` | the abstract specification of domain rows |
| `DomainLifecycle` | `service.ts`, `state.ts`, the provider adapter | the service; instance `G` of `DomainGuards` |
| `ProofStreak` | `debounce.ts` and the writes of its columns | one row's evidence |
| `EmailQueue` | `queue.ts`, the admin's retry | queue, writers, workers |
| `GivingLedger` | triggers of `giving_gifts` and `giving_gift_reversals` (`0055`) | the abstract specification of the ledger |
| `GivingIngest` | inbox and apply functions of `0055`, `giving/ingest/process.ts` | extends `GivingLedger` and implements it |
| `ReimbursementGuards` | triggers of `0073` | the abstract specification of a request |
| `Reimbursement` | functions of `0073`, `lib/reimbursement` | extends `ReimbursementGuards` and implements it |
| `Roll` | `0012`, `0061`, `0062`, `0014`; `roll.ts`, `officers.ts`, `community-engagement.ts` | register, cache, ends of memberships |
| `SignInLinks` | `0065`, `0066`; `lib/onboarding` | accounts, people, invitations |
| `DomainGuardsProofs`, `DomainLifecycleProofs`, `ProofStreakProofs`, `EmailQueueProofs`, `GivingIngestProofs`, `ReimbursementProofs`, `RollProofs`, `SignInLinksProofs` | | theorems about the module of that name |
| `MCDomainGuards`, `MCDomainLifecycle`, `MCProofStreak`, `MCEmailQueue`, `MCGiving`, `MCReimbursement`, `MCRoll`, `MCSignInLinks` | | constants for TLC |

A definition whose comment begins "A slip" is a wrong variant of the definition
below it, the way a plausible bug would write it. Nothing in a specification
uses it; it is there so that every property can be seen to fail when the code
is broken.

### DomainGuards

`dom` is the table, one slot per (organization, host, purpose). The partial
unique index allows one non-terminal row in a slot and the trigger freezes
terminal rows, so a slot holds the newest row only. A row is its state,
`web_role`, `release_cause`, deadline (`none`, `running`, `over`), whether
`expires_at` has passed, and whether `force_release_reason` is set. Host name
syntax, token columns, check bookkeeping and notification state are left out:
no guard on an edge reads them, apart from null checks that hold with the
columns above.

`UpdateAccepted` is the whole update trigger: the edge table (`LegalEdge`), the
pending expiry, the reason (`ReasonAccepted`), the cause with its evidence
(`CauseAccepted`, `ExitEvidence`) and the stamps (`Stamped`). `InsertAccepted`
is the insert trigger. `Indexes` is the three partial unique indexes and the
caps. `Transaction(o)` commits any set of rows of one organization that the
guards accept. That constrains the next table without listing it, which is
what an abstract specification wants; for enumeration `StatementSpec` issues
one statement at a time, with every value a writer may propose, and
`StatementsImplementSpec` proves that this stays within `Spec`.

### DomainLifecycle

A checker is an invocation of `observeAndAdvance` or of `reconnectClaim`. Its
steps are the code's: `BeginSweep` and `CheckNow` read the group (`seen` keeps each row's
state and identity), `Lookup` is the TXT lookup, `AddDomain`, `GetDomain` and
`RemoveDomain` the provider calls of `gatherEvidence` in its order, `Apply` the
transaction that locks, drops the rows that moved, advances the rest
(`ApplyRow`) and calls `ensureCanonical`, and `Reread` pass two. Nothing is
locked between them, and any other action may come in between. A provider call
that fails may have taken effect. `Crash` loses a checker with all it learned.

`Transition` is `transitionDomain`: the next state, the cause of
`releaseCauseFor`, and what the trigger stamps, taken from `DomainGuards`. It
does not check the guards. That the guards accept is a property,
`WritesAccepted == G!Spec`: the service implements the abstract specification.
Two writes the code expects to be refused are modelled as such:
`HeldElsewhere` is the savepoint of `applyPending`, and `ApplyRefused` the
removal for `org_closed` of an organization that has reopened. `Written(old, new)`
is the table after the updates of one transaction: the rows of `new`, and the
others as they were.

The sweep's lease is `next_check_at` pushed out. Every other write to a row
sets that column too, so the model does not count on it to keep two sweeps off
one row. Which definite proof miss is the last one is the business of
`ProofStreak`; here a miss may or may not lapse the row.

### ProofStreak

One row and the checks of it. `count`, `since` and `probes` are the code's
columns. `streak`, `first` and `bad` are history: what the columns are meant to
count. The properties speak of the history, so they fail if the columns drift
from it. Time is in ticks and stops at `Span`, after which it no longer tells
anything apart.

### EmailQueue

Per row, the writer's inline send (`read`, `send`, `record`); per worker, the
recovery of leases, the claiming statement and the loop of send and record; per
call of the administrator's retry, what it has read and not yet written. Each
keeps what it saw (`body`, `count`) from its read to its write, and each write
is by row id alone, as in the code: nothing orders them. A worker may claim a
row whose inline send is not over, or outlive its ten minute lease, and two
retries may overlap. The provider may accept a message and lose the answer.
`tries`, `retried` and `late` are history: the provider calls made, the rows an
administrator has retried, and the rows of which some write went over a state
it had not seen. A body is `full` or `redacted`.

### GivingLedger and GivingIngest

`GivingLedger` is the two tables as their triggers keep them: a gift takes one
step out of pending and one fee, a reversal is written once, and the net taken
back from a gift stays between nothing and its amount (`Bound`, which is
`presby_giving_check_reversal_bound`).

`GivingIngest` adds the provider and the inbox. What the provider tells is a
story: a set of events, the order in which they happen (`After`, `Excludes`) and
what the desk and the cron may do beside them. An event that has happened may be
delivered any number of times, or never; a second delivery finds the row and
writes nothing. `Claim`, `Apply` and `Finish` are the three transactions of a
worker, with a crash possible after each: a claim whose lease is over is claimed
again, and what was applied is applied again. `verdict` is what the worker
remembers between its last two transactions. `old` is whether the event was
received more than a day ago; the code gives up waiting for a gift then, and
for a missing reversal after `GraceAttempts`.

What is assumed of the provider is named. `PartAssumption`: an event is about a
gift, a fee or a reversal of a payment that went through the provider.
`FailedAssumption`: in one story a payment does not both fail and get taken back
(the story may have either). `VoidAssumption`: a void is of the whole gift, and
there is one of it (`giving_reversals_void_idx`). `TrueStatus` reads the
provider's story of a payment: failed, then succeeded, then pending, the first
that was told.

### ReimbursementGuards and Reimbursement

One request. `ReimbursementGuards` is the transition table, the freeze of the
fields, what a move clears, and who may stand behind an approval and a payment,
on any connection. `Reimbursement` is the functions the application calls. Each
locks the row and is one step, but what it is asked to do was decided on a
`page` shown at any earlier time, and `RolesChange` gives and takes seats, keys
and the creator's standing between any two steps. `Party` maps logins to the
person behind them, as `presby_reimbursement__same_party` does. `pages`, `seen`
and `waivedOn` are history: what was ever shown, what the approver acted on,
what the request said when a receipt was waived.

### Roll

`acts` is `roll_actions`, in order of `recorded_at`; `Effective`, `RollAsOf` and
`Latest` are the replay over it. `Commit` is any transaction that leaves an
approved row: it writes the row, projects the cache of that membership as of
today (the trigger `presby_sync_current_roll`) and fails whole if the unique
index refuses the projection. Approval of a gain is the Session's; enrolments,
removals and voids of other participants take effect on record. A proposal
takes no lock, and its place in `acts` is that of the start of its transaction
(`recorded_at` is `now()`): `Propose` reads and appends a row that nobody sees,
and `ProposalCommitted` makes it pending, later, or not at all. `Tomorrow` moves
the calendar and writes nothing, which is what `Reconcile` is for. A pastor's
term reads the roll and locks nothing, so its commit is a step of its own
(`TermCommitted`).

### SignInLinks

`sent` is `account_invitations` in order. Issue is one step under the lock of
the organization, resend and revoke under that and the invitation's; neither
locks the person. Acceptance is one step under the locks of the organization,
the invitation, the account and the person. `Accept`, `AcceptInPlace` and
`AcceptAnew` are the three ways into the same core: the address is looked up
again on the record, and the person is linked or the invitation is blocked.

Connection, which happens at sign-in with nobody asked, is four steps.
`ConnectRead` is its first pass, without locks. `ConnectLocked` takes the locks of
the organization, the account and the person it found, and makes the checks of
the account (1 to 4); `ConnectChecked` makes those of the person (5 to 11), in a
later statement; `Connect` links and commits. Whoever needs one of those locks
waits (`OrgFree`, `PersonFree`, `AccountFree`); a sender at another organization, or
one who saves another person's addresses, does not. Checks 5 to 11 are one step
although they are several statements: what 7 to 11 read is the person's own, so
a change to that in between could as well have come before 5, and a change to
others' addresses after 11. An edit that would wait in the code for a lock the model does not show
goes ahead in the model.

`Others` is what the rest of the application writes meanwhile: new accounts,
proofs and changes of address, the list of a person's addresses, memberships,
seats.

## 4. What is checked

Bounds named in the `.cfg` files: `MaxId` rows per slot over time, `WebCap`,
`MaxAttempts` of a message or an event, `Batch`, `Stories` (what may take place in a
behaviour), `MaxRev` revisions, `MaxActs` roll actions, `LastDay`, `MaxSent`
invitations, `MaxEdits` writes by others. Every run explores its whole state
space.

| Run | Question | Bounds | Expect |
|---|---|---|---|
| `MCDomainGuards` | After any sequence of accepted statements, does no row leave before its grace is over, and no grace start again? | a web and a mail slot of one organization | pass |
| `MCDomainRace` | Two organizations want one name, and two checks or reconnects of one claim overlap: does the database accept every write the service attempts? | 2 organizations, 1 host, 2 checkers on one claim | pass |
| `MCDomainCanonical` | With two hosts, a hold and force-releases: are all writes accepted, does the canonical role leave with its host, and does a church with a live host get one again? | 2 hosts in 2 claims, one of them held and let go, 1 checker, no deadline, sweeps that come back | pass |
| `MCDomainLive` | Do releases finish, lost hosts come back, closed organizations leave service, and are all writes accepted meanwhile? | 1 host, 1 checker, deadlines, closing, a host the provider loses, fairness | pass |
| `MCProofStreak` | Does a lapse rest on the misses the policy asks for, and is a loss noticed? | 3 misses over 2 ticks, 2 probes, 1 check at a time, removals and reconnections | pass |
| `MCEmailQueue` | Do claims never share a row, is nothing given up early, no link left on a row that is over, no marker mailed but after a late write, does what is over stay over, does every message end? | an ordinary message or an invitation with 2 workers, 2 retries that overlap, 2 attempts, fairness; both in one worker's batch | pass |
| `MCGiving` | Does the ledger come to what the provider says, in any order, with repetitions and crashes, and do the triggers accept every write? | 8 stories of 4 payments, 2 attempts | pass |
| `MCGivingEnds` | Does every delivered event end? | a bank debit's three events, fairness | pass |
| `MCReimbursement` | Is what is paid what was approved, by two persons, with a receipt or a waiver for it, and never stuck; do the functions never run into the triggers? | 5 logins of 4 persons, 2 contents, 4 revisions | pass |
| `MCRoll` | Do memberships end as the register says, is the cache wrong only by the calendar, and does it catch up? | 1 person at 2 congregations, 3 actions, 2 days, fairness | pass |
| `MCSignInLinks` | Is an account one person, through an address on the record, and nobody connected over an invitation of their own congregation? | 2 accounts, 2 people, 2 organizations, 2 addresses, 2 invitations, 4 edits | pass |
| `MCRollSweep` | Does the daily sweep always catch up, as its comment says? | 1 person at 2 congregations, 2 actions, 2 days, fairness | violation |

Why the bounds are enough to be interesting. The guards of a domain look at one
row at a time except for the indexes, so one slot of each purpose shows every
edge; the theorems of section 5 remove the bound. A race for a name needs two
organizations and no more, since the index names one holder; answers that
overtake each other need two checks. The canonical role needs a second host, and
a second claim because a removal works on a whole claim. Three misses over two
ticks keep apart a count without its span, a span without its count, and the
miss before the last (the policy has six over ten hours). Two attempts of a
message are a first and a last; the column's default is eight, no caller sets it,
and with one attempt a message whose inline send fails would wait for ever,
since nothing claims a row at its limit. Two overlapping retries are enough for
one to write what the other has made stale. A refund, its failure and a second refund are
the longest chain in which an order of arrival changes what `Bound` says. A
request needs an approver, a payer, a creator, a payee and a second login of one
of them; four revisions are a draft, a correction and one change to each round.
Three roll actions are two with one between or a void of one; two days are
today and the day something falls due. Two invitations are two organizations
that ask one account, or a chain with one resend; four edits are the two that
move an address and the two that make an account and prove it.

The product of the domain runs is out of reach, so each fixes at one what the
others vary; an organization closes and reopens in `MCDomainLive` only.
`MCDomainRace` uses symmetry of organizations and checkers and, by a state
constraint, checks that overlap are of one claim, and leaves out force-releases,
which the other two have; `MCDomainCanonical` leaves out evictions, which differ
from force-releases in a label only. Both properties of `MCDomainRace` are of
steps and states, so symmetry and constraint lose nothing but those states.
`MCDomainCanonical` is a liveness run under a constraint, which can hide a
violation only if it cuts off a step that fairness forces: it cuts evictions and
the running out of a grace, and its specification (`SweepSpec`) is fair to
neither. `MCEmailQueue` allows a second row only beside one worker, one inline
send at a time, no retry and no late write (`TwoRowsAlone`): that is the batch
of two, the rest is of one row. Nothing forces the insert that the constraint
cuts off, so what one row does is explored whole, and the liveness of a row
alone is checked in full; beside another row it is checked as far as the
constraint lets the two go. `MCSignInLinks` uses symmetry too and has no
liveness. Deadlock is not checked where a bound, an end of the calendar or a
story that is told makes the model stop where the program would go on.

What the violation shows. `MCRollSweep`: two congregations each approve a gain of
the same person dated ahead. Each projects alone (the roll of today is
unchanged), so both are accepted. On the day, `presby_reconcile_current_roll`
writes every stale membership in one statement, the two rows meet
`memberships_one_active_roll_idx`, and the whole sweep fails, that day and every
day after, for every organization; the maintenance route reports an error
instead of a count. `CaughtUp` says what remains: the cache follows whenever no
such clash is there.

### Seen while modelling, and not made into runs

- Domains. `reconnectClaim` moves a parked row, whose host is still attached, back
  to verified (`service.ts:1988`). Removing or force-releasing it from there
  releases it with no detach, since `service.ts:1577`, `service.ts:2328` and
  `reattach.ts:18` take verified for never attached: the host stays in the
  project with no row. `OrphanHolds` proves that with one check at a time this is
  the only way.
- Domains. With two checks an `addDomain` sent before a release may land after
  its detach (`service.ts:869`, against the comment at `service.ts:1575`).
- Domains. Reconnection clears the miss count and keeps `proofMissSince`
  (`service.ts:1981`), so afterwards a burst of misses is enough, against
  `debounce.ts:17`; `LapseNeedsSpanOneAtATime` is proved for rows that are not
  reconnected. Overlapping checks can apply a miss after a later proof.
- Email. A row is eligible from its insert on (`queue.ts:284`). A cron tick between
  the insert and the end of its inline send claims it, and the message is sent
  twice, where `docs/work-log/2026-07-01-email-queue.md:232` says "No race between
  inline and worker".
- Email. A cancellation redacts an invitation while its inline send is out; if
  that fails, its record looks at the id only and queues the row again
  (`queue.ts:333`), and a worker sends the marker, against `queue.ts:223`.
  `MarkerOnlyAfterLateWrite` says that it takes such a write.
- Email. A retry that has read a row as failed writes after another retry and a
  worker, or a late inline record, had it sent: the sent message is queued and
  sent again (`actions.ts:61`, against `actions.ts:27`).
- Email. A worker that dies after the provider call leaves an attempt uncounted.
- Giving. A refund that waits more than a day for its gift is ignored
  (`drizzle/0055:1727`), where the work log says "parked and retried, never
  dropped" (`docs/work-log/2026-10-15-online-giving.md:276`). `Converged` speaks of
  histories in which nothing was given up so.
- Roll. A first gain is approved behind an enrolment of the same day or later, and
  then a second one on or after that day: both checks of the approval
  (`drizzle/0062:629`) see the enrolment and not the other gain, and the annual
  report counts both, against the comment at `drizzle/0062:849`.
- Roll. The void of an enrolment whose projection meets the unique index is
  reported as `already_voided`. A pastor's term can commit beside an approval
  that saw none (`drizzle/0062:618`, `officers.ts:686`). A person with a gain
  dated ahead can be archived, and then has a roll on an ended membership.
- Sign-in. While a connection is under its locks, another organization saves the
  address on a record of its own and sends an invitation to it, and neither step
  needs one of the locks: the connection is committed over an open invitation,
  where `docs/work-log/2026-10-22-founding-admin-directory.md:7800` says a send
  cannot race it. `NotAskedAtHome` says what remains: at the person's own
  congregation the lock keeps it from happening. The window is a few statements
  long.
- Two-factor, read and not modelled: two concurrent regenerations of recovery
  codes leave both sets; completing an expired enrolment may delete a fresh one.

### Fairness

- `DomainLifecycle`: an invocation that is not killed finishes (weak fairness
  of its next step: it is a sequence of awaits with timeouts). The sweep reaches
  every due row again and again (strong fairness per row: `next_check_at` is
  always set, and the batch takes the longest due first). A lookup, an add, a
  read and a detach succeed in the end if tried again and again (strong
  fairness: outages end). Deadlines pass. Crashes stop at some time; without it
  every invocation could die. An organization closes and reopens finitely
  often: lifecycle events are minuted acts, and one between every snapshot and
  its write would keep refusing the sweep. Nothing is assumed of churches,
  administrators or the platform: no fairness on any of their actions.
  `SweepSpec`, of `MCDomainCanonical`, has only a part of this: a check goes on,
  sweeps come back, crashes stop.
- `ProofStreak`: checks come back and the resolvers give a definite answer in
  the end; an observed check is applied; time passes.
- `EmailQueue`: cron invokes the worker, an invocation goes on or is killed
  by the platform's time limit (a send that never returns is such a kill),
  backoffs and leases run out, and kills of workers stop at some time. Inline
  sends may crash for ever, and no retry is ever owed. Nothing orders an inline
  send, a worker and a retry of one row.
- `GivingIngest`: the cron comes back to what is due and to leases that are
  over, a worker that is not killed goes on, an event that is retried for ever
  grows older than a day, and kills stop at some time. Workers are assumed not
  to outlive their lease: the route's limit is 30 seconds, the lease 2 minutes.
- `Roll`: the maintenance route is called every day (weak fairness of the
  reconcile).

## 5. What is proved

All theorems are for every value of the constants (any sets of organizations,
hosts, people, logins, messages; any caps, limits and policies that the named
assumptions allow). Every invariant and every action property of the passing
runs is one of them, and so are the three refinements. Where a theorem is under
an assumption on the schedule that its run makes too (one check at a time), that
is said here.

`DomainGuardsProofs`. `Evidence` (`ForcedByReasonOnly`, `NoEarlyRelease`,
`GraceOnSuspended`, `CauseOnExit`) speaks of each row alone and is inductive
only as a whole: a release keeps the cause recorded when it began, so that it
is not early follows from the reason still being there, and that from the cause
having been a platform cause. The proof states it per row (`RowOK`), shows that
a new row satisfies it and that every accepted update preserves it, with one
case per kind of edge, and lifts that to the table, where a transaction is a
set of such updates. `GraceNeverRestarts` is an action property and follows
from the stamps and the edges under typing. `IndexesHold` needs finiteness, for
the caps. `StatementsImplementSpec` is a refinement: the initial states are the
same and every statement is a transaction that changes one slot.

`DomainLifecycleProofs`. The refinement, `WritesAcceptedHolds`, is for any number
of overlapping checks, with answers as late as they like, crashes, holds and
lifecycle events in between. Its invariant `IInv` has the types, the evidence on
each row (`Rows`), the indexes and caps, and that a claimed row has an identity.
None of these stands alone: an exit is accepted only with the cause and the
reason the row carries, and a proof is applied only where no other organization
holds the name, which `HeldElsewhere` reads and the index guarantees of the rows
that hold it already. `Fits` is what each event of `state.ts` needs of the row it
is applied to, and `TransitionAccepted` that the trigger then accepts it, with
one case per event; that every caller establishes `Fits`, from rows read again
under lock, is the argument of `ApplyRowReached`, `RemovedReached` and
`ExitReached`. A table of rows that were each `Reached` by an accepted write is
accepted as a whole (`TableAccepted`), canonical role and caps included. The caps
count, so `Host` is finite (`BoundAssumption`). `ParkedNeverCanonicalHolds` is a
part of `Rows`.

Three more theorems say that what `DomainGuards` promises of a row is so of the
service's rows at every moment, not only where a write is checked:
`EvidenceInService` (no release before the grace is over unless it was forced, a
deadline on every suspended row), `IndexesInService`, and
`GraceNeverRestartsInService`, an action property that follows from `IInv` and
the trigger's stamps (`GraceStep`).

`OrphanHolds` has the hypothesis that no two checks overlap, and needs it:
section 4 says what happens otherwise. `IInv` says nothing of the provider's
project, so there is a second invariant, `FlightInv`: a row the check saw
attached, or on its way in or out, is still in one of those states (`Serving`),
and a host whose detach was confirmed to the check is not in the project. The
first part is kept because no step but a check's own brings a row back to
verified or ends a release (`Quiet`, a lemma for each action of the tenant and
of the platform); the second because only a check attaches.

`ProofStreakProofs`. `LiveLostNeedsProbesHolds` holds for any number of
overlapping checks, from the invariant that the probe counter never exceeds the
negatives seen since the last acknowledgment. `LapseNeedsMissesOneAtATime` and
`LapseNeedsSpanOneAtATime` assume a single checker: their invariants say that a
check in flight was not overtaken, that `count` never exceeds the streak, and
that `since` is never older than its first miss. The second assumes also that
the claim is not removed: the step the proof cannot make is `Reconnect`.

`EmailQueueProofs`. All six hold on any schedule: inline sends that meet a
worker, workers that outlive their lease, retries that overlap. `Typing` needs
that a worker's copy of a count was below the limit when it was taken
(`TypeInv`). `LinksRedactedHolds`: every update that ends a row redacts it, and no
update of an ended row brings back a body. `OneWorkerHolds` and `OverForGoodHolds`
rest on `MineUnlessLate`: until some write has gone over a state it had not
seen, whatever a worker holds is in processing, not stale, and no other's.
`MarkerOnlyAfterLateWriteHolds` adds `FullUnlessLate`: until then a row that is
not over, and every copy of it, has its body.
`NoEarlyFailureHolds` rests on `CountedUnlessRetried`: no copy of a count, in the
row or in the hands of a worker, is ahead of the provider calls made, so a count
written back late can only put the end off. The restriction to rows that no
administrator has retried is needed: a retry sets the count back, and a worker
that has outlived its lease can write its old count after it.

`GivingIngestProofs`. `LedgerKeptHolds`: every write of the apply functions and of
the desk is one the ledger's triggers accept. The functions ask the bound
themselves of what the provider tells, but not of a void; that a void fits needs
`DeskVoids`, that nothing else was ever taken back from a gift entered at the
desk. `ConvergedHolds` has the invariant `IInv`. `WorkTold`: an event that was
applied, or of which only the worker's verdict says so, has written what it
says (`Effect`), and an ignored one was given up or its gift failed (`Dropped`).
`LedgerTold`: the ledger holds nothing the provider did not tell. The first is
kept though other events come in any order because the ledger only grows
(`Grown`, which follows from the refinement); the second needs no order at all.
Neither is enough: equality in the end is one inclusion from each. A failed gift
that is taken back would break it, hence `FailedUntaken`. `WithinGift` is the bound
over time: `LedgerKept` says that each write was within it, this theorem that
the ledger is, with each reinstatement beside the reversal it gives back.

`ReimbursementProofs`. `IInv` adds to the types that an approval in force
matches the row (`ApprovalOK`), that a waiver matches what it was given for
(`WaiverOK`), that a live payment goes with status paid and another person
(`PaymentOK`), and that no page is from the future: the revision numbers what
was shown, so an equal revision is an equal page (`PagesOK`). That last part is
why an approval by a stale page is refused exactly when it should be.
`SomebodyMayPayHolds` is a counting argument on who can be interested.
`GuardsKeptHolds` is the refinement: under `IInv` every step of the functions
is a step of the triggers, or leaves the guarded rows alone.

`RollProofs`. What a transaction writes for one membership changes the
effective actions of no other (`Elsewhere`), because a void names an action of
its own membership (`VoidsOK`). From it, `StaleByTheCalendarHolds`: a write
projects the replay of today, the calendar only adds days, and what is pending
is not replayed. `RemovedAsRecordedHolds` strengthens the property to
`RemovedInv`: a removal in effect is the latest action of its membership and has
ended it that day, and a membership ended as a removal has one. It needs that
nothing is approved or enrolled on an ended membership, that only the latest is
voided, and that the latest is unique. Where a proposal stands among the rows
recorded while it waited plays no part: until it is approved it is in no
replay, and its approval looks at the rows then effective.

`SignInLinksProofs`. `LinkShape` says that links change by an acceptance or a
connection, for one person at a time. An acceptance reads and writes in one step.
A connection commits what it has read some statements ago, so each theorem needs
what is still true of it. `Relies`: while it holds its locks the account is
nobody's, and no open invitation of the locked organization goes to its address.
`Sole`: once checked, its person is nobody's, carries the address and belongs
nowhere else. `Apart`: no two hold one person. These are kept by every other
step because each either needs one of the locks or adds nothing they speak of;
that somebody else may meanwhile save the same address is not excluded, and not
claimed. `OnePersonEachHolds`, `LinkedThroughRecordHolds` and `NotAskedAtHomeHolds`
follow.

Only model-checked. Liveness, everywhere, since the provers do not handle fairness
and `ENABLED`: `ReleaseCompletes`, `SelfHeals`, `CanonicalRepaired`,
`ClosedLeavesService`, `EveryMessageEnds`, `EveryEventEnds`, `LossIsNoticed`,
`CaughtUp`. What the reversals of a gift sum up to is never computed in a proof,
which would be an induction over data: the sums of none and of one are enough,
and the rest is the bound the code itself checks. No module uses recursion.

## 6. Not modelled, and why

The model covers about two lines in a hundred of the implementation. Most of
the rest is pages, forms, queries for lists, help texts and styling; most of
what is left of the logic is features whose every operation is one transaction
under one lock, which the repository's tests reach well. The modules are where
several transactions, the network, the clock or several people's order of
action decide.

- Row locks and lock order. A transaction is one action, as its locks make it.
  `orgWebRows` and `groupRows` lock in different orders, so two transactions
  may deadlock and Postgres abort one; that is a lost request, which `Crash`
  covers for the cron.
- Domains: notices and alerts, rate limits, permission gates, the checklist, mail
  rows of the service, the re-attach script. They read the rows and do not move
  them, or only refuse a request.
- Email: rendering and the delivery webhook, which writes columns no decision
  reads.
- Giving: parts that contradict their own row (amounts, sessions or intents that
  do not match, which are dead letters at once), the flag of a failed renewal,
  settlements and their lines, the connection's status, checkout,
  donors, statements, the purge of bodies.
- Reimbursements: notes, notices, categories, imported payees, the blob of a
  receipt and its scan before the row is written.
- Roll: minutes cited, transfers, imports, opening balances and losses (the
  application's functions insert neither), engagement, groups derived from the
  roll, deaths and merges (no writer), the engagement of a person. Memberships
  exist from the start.
- Sign-in: invitations of a founding administrator and of a treasurer, the
  sender's own permissions, limits and cooldown, redaction; two-factor, lockout
  and sessions.
- Row-level security and the permission resolver: static predicates, tested
  against the real database by the repository.
- The components of section 1 that no module of section 3 names: single
  statements or presentation.

------------------------------- MODULE EmailQueue -------------------------------
(***************************************************************************)
(* The outbound email queue (lib/email/queue.ts): a row is inserted, its   *)
(* writer tries to send it at once, and a cron worker takes over what is   *)
(* left.  A send is a provider call between two statements: nothing is     *)
(* locked while it runs, and what it saw is written back by row id alone.  *)
(***************************************************************************)
EXTENDS Naturals, FiniteSets

CONSTANTS
  Email,        \* queue rows
  Credential,   \* rows whose body carries a one-time link (CREDENTIAL_TEMPLATE_KEYS)
  Direct,       \* rows written by enqueueEmail; the others by insertQueueRowInTx
  Worker,       \* cron invocations that may overlap
  Request,      \* calls of retryEmailAction that may overlap
  MaxAttempts,  \* max_attempts
  Batch         \* rows a worker claims at most

ASSUME EmailAssumption == Credential \subseteq Email /\ Direct \subseteq Email
ASSUME LimitAssumption == MaxAttempts \in Nat \ {0} /\ Batch \in Nat \ {0}

VARIABLES
  row,      \* the email_queue table
  inline,   \* the writer's own send of each row
  worker,   \* the invocations of processQueueBatch
  retry,    \* the row each retryEmailAction has read and not yet written
  retried,  \* history: the rows an administrator has retried
  late,     \* history: the rows some write found in other hands, and went over
  tries     \* history: provider calls for each row since its insert or retry

history == <<retried, late, tries>>
vars == <<row, inline, worker, retry, history>>

Row == [status: {"none", "queued", "processing", "sent", "failed", "cancelled"},
        count: 0..MaxAttempts,                \* attempt_count
        next: {"null", "later", "due"},       \* next_attempt_at
        stale: BOOLEAN,                       \* last_attempt_at over ten minutes ago
        body: {"full", "redacted"}]

NoRow == [status |-> "none", count |-> 0, next |-> "null", stale |-> FALSE, body |-> "full"]

Idle == [pc |-> "idle"]
Outcome == {"sent", "error"}
Least(m, n) == IF m < n THEN m ELSE n

(* A slip: the body, which the column requires, is set to null.            *)
RedactedToNull(e, r) == [r EXCEPT !.body = IF e \in Credential THEN "null" ELSE @]

(* redactionFor, in the update that ends a row.                            *)
Redacted(e, r) == [r EXCEPT !.body = IF e \in Credential THEN "redacted" ELSE @]

-------------------------------------------------------------------------------
(* attemptSend.  A message that was accepted and whose answer was lost is  *)
(* an error to the code.                                                   *)

Attempt(e, outcome) ==
  /\ outcome \in Outcome
  /\ tries' = [tries EXCEPT ![e] = Least(@ + 1, 2 * MaxAttempts)]

-------------------------------------------------------------------------------
(* The writer: enqueueEmail goes straight on with the row it inserted,     *)
(* attemptQueuedSend reads it back after the commit and looks at it.       *)

Insert(e) ==
  /\ row[e].status = "none"
  /\ row' = [row EXCEPT ![e] = [NoRow EXCEPT !.status = "queued"]]
  /\ inline' = [inline EXCEPT ![e] =
       IF e \in Direct THEN [pc |-> "send", body |-> "full"] ELSE [pc |-> "read"]]
  /\ UNCHANGED <<worker, retry, history>>

InlineRead(e) ==
  /\ inline[e].pc = "read"
  /\ inline' = [inline EXCEPT ![e] =
       IF row[e].status = "queued" THEN [pc |-> "send", body |-> row[e].body] ELSE Idle]
  /\ UNCHANGED <<row, worker, retry, history>>

InlineSend(e) ==
  /\ inline[e].pc = "send"
  /\ \E outcome \in Outcome :
       /\ Attempt(e, outcome)
       /\ inline' = [inline EXCEPT ![e] = [pc |-> "record", body |-> @.body, outcome |-> outcome]]
  /\ UNCHANGED <<row, worker, retry, retried, late>>

InlineRecord(e) ==
  /\ inline[e].pc = "record"
  /\ row' = [row EXCEPT ![e] =
       IF inline[e].outcome = "sent"
       THEN Redacted(e, [@ EXCEPT !.status = "sent", !.count = 1, !.stale = FALSE])
       ELSE [@ EXCEPT !.status = "queued", !.count = 1, !.stale = FALSE, !.next = "later"]]
  /\ inline' = [inline EXCEPT ![e] = Idle]
  /\ late' = late \cup {f \in {e} : row[f].status # "queued"}
  /\ UNCHANGED <<worker, retry, retried, tries>>

InlineCrash(e) ==
  /\ inline[e].pc # "idle"
  /\ inline' = [inline EXCEPT ![e] = Idle]
  /\ UNCHANGED <<row, worker, retry, history>>

(* cancelQueuedEmail: only invitations, whose rows are credentials, are    *)
(* ever revoked or superseded.                                             *)
Cancel(e) ==
  /\ e \in Credential
  /\ row[e].status = "queued"
  /\ row' = [row EXCEPT ![e] = Redacted(e, [@ EXCEPT !.status = "cancelled"])]
  /\ UNCHANGED <<inline, worker, retry, history>>

-------------------------------------------------------------------------------
(* processQueueBatch *)

Holds(w, e) == worker[w].pc \in {"send", "record"} /\ e \in DOMAIN worker[w].todo

Expired(e) == row[e].status = "processing" /\ row[e].stale

(* Step 1: rows in processing for more than ten minutes are queued again,  *)
(* whether or not the worker that took them is still running.              *)
Recover(w) ==
  /\ worker[w].pc = "idle"
  /\ row' = [e \in Email |->
       IF Expired(e) THEN [row[e] EXCEPT !.status = "queued", !.next = "due"] ELSE row[e]]
  /\ late' = late \cup {e \in Email : Expired(e) /\ \E v \in Worker : Holds(v, e)}
  /\ worker' = [worker EXCEPT ![w] = [pc |-> "claim"]]
  /\ UNCHANGED <<inline, retry, retried, tries>>

(* A slip: the claim does not look at the status.                          *)
EligibleAnyStatus(e) ==
  /\ row[e].status \in {"queued", "processing"}
  /\ row[e].next \in {"null", "due"}
  /\ row[e].count < MaxAttempts

Eligible(e) ==
  /\ row[e].status = "queued"
  /\ row[e].next \in {"null", "due"}
  /\ row[e].count < MaxAttempts

(* Step 2: one statement takes up to Batch of the eligible rows, also one  *)
(* whose inline send is not over.  todo holds what it returned of each.    *)
Taken(e) == [count |-> row[e].count, body |-> row[e].body]

Claim(w) ==
  LET eligible == {e \in Email : Eligible(e)} IN
  /\ worker[w].pc = "claim"
  /\ \E taken \in SUBSET eligible :
       /\ Cardinality(taken) = Least(Batch, Cardinality(eligible))
       /\ row' = [e \in Email |->
            IF e \in taken THEN [row[e] EXCEPT !.status = "processing", !.stale = FALSE] ELSE row[e]]
       /\ worker' = [worker EXCEPT ![w] =
            IF taken = {} THEN Idle
            ELSE [pc |-> "send", todo |-> [e \in taken |-> Taken(e)]]]
  /\ UNCHANGED <<inline, retry, history>>

(* Step 3, a row at a time: the provider call, then the update by id.      *)
Send(w) ==
  /\ worker[w].pc = "send"
  /\ \E e \in DOMAIN worker[w].todo, outcome \in Outcome :
       /\ Attempt(e, outcome)
       /\ worker' = [worker EXCEPT ![w] =
            [pc |-> "record", todo |-> @.todo, at |-> e, outcome |-> outcome]]
  /\ UNCHANGED <<row, inline, retry, retried, late>>

(* Slips: the last attempt is not made; one attempt too many is asked for; *)
(* a failed row keeps its body; one that is to be sent again loses it.     *)
RecordedEarly(e, r, count, outcome) ==
  CASE outcome = "sent" -> Redacted(e, [r EXCEPT !.status = "sent", !.count = count])
    [] outcome = "error" /\ count + 1 >= MaxAttempts -> Redacted(e, [r EXCEPT !.status = "failed", !.count = count])
    [] OTHER -> [r EXCEPT !.status = "queued", !.count = count, !.next = "later"]

RecordedLate(e, r, count, outcome) ==
  CASE outcome = "sent" -> Redacted(e, [r EXCEPT !.status = "sent", !.count = count])
    [] outcome = "error" /\ count > MaxAttempts -> Redacted(e, [r EXCEPT !.status = "failed", !.count = count])
    [] OTHER -> [r EXCEPT !.status = "queued", !.count = count, !.next = "later"]

RecordedWithBody(e, r, count, outcome) ==
  CASE outcome = "sent" -> Redacted(e, [r EXCEPT !.status = "sent", !.count = count])
    [] outcome = "error" /\ count >= MaxAttempts -> [r EXCEPT !.status = "failed", !.count = count]
    [] OTHER -> [r EXCEPT !.status = "queued", !.count = count, !.next = "later"]

RecordedRedacted(e, r, count, outcome) ==
  CASE outcome = "sent" -> Redacted(e, [r EXCEPT !.status = "sent", !.count = count])
    [] outcome = "error" /\ count >= MaxAttempts ->
         Redacted(e, [r EXCEPT !.status = "failed", !.count = count])
    [] OTHER -> Redacted(e, [r EXCEPT !.status = "queued", !.count = count, !.next = "later"])

Recorded(e, r, count, outcome) ==
  CASE outcome = "sent" -> Redacted(e, [r EXCEPT !.status = "sent", !.count = count])
    [] outcome = "error" /\ count >= MaxAttempts ->
         Redacted(e, [r EXCEPT !.status = "failed", !.count = count])
    [] OTHER -> [r EXCEPT !.status = "queued", !.count = count, !.next = "later"]

Record(w) ==
  LET e == worker[w].at
      left == DOMAIN worker[w].todo \ {e}
  IN
  /\ worker[w].pc = "record"
  /\ row' = [row EXCEPT ![e] = Recorded(e, @, worker[w].todo[e].count + 1, worker[w].outcome)]
  /\ worker' = [worker EXCEPT ![w] =
       IF left = {} THEN Idle
       ELSE [pc |-> "send", todo |-> [f \in left |-> @.todo[f]]]]
  /\ UNCHANGED <<inline, retry, history>>

WorkerCrash(w) ==
  /\ worker[w].pc # "idle"
  /\ worker' = [worker EXCEPT ![w] = Idle]
  /\ UNCHANGED <<row, inline, retry, history>>

-------------------------------------------------------------------------------
(* retryEmailAction reads the status and the template; its update looks at *)
(* neither again, and nothing is locked in between.  Calls may overlap.    *)

(* Slips: any row may be retried; one that carried a link may be.          *)
RetryReadAny(a, e) ==
  /\ retry[a] = {} /\ row[e].status # "none" /\ e \notin Credential
  /\ retry' = [retry EXCEPT ![a] = {e}]
  /\ UNCHANGED <<row, inline, worker, history>>

RetryReadLink(a, e) ==
  /\ retry[a] = {} /\ row[e].status = "failed"
  /\ retry' = [retry EXCEPT ![a] = {e}]
  /\ UNCHANGED <<row, inline, worker, history>>

RetryRead(a, e) ==
  /\ retry[a] = {}
  /\ row[e].status = "failed"
  /\ e \notin Credential
  /\ retry' = [retry EXCEPT ![a] = {e}]
  /\ UNCHANGED <<row, inline, worker, history>>

RetryWrite(a, e) ==
  /\ e \in retry[a]
  /\ row' = [row EXCEPT ![e] = [@ EXCEPT !.status = "queued", !.next = "due", !.count = 0]]
  /\ retry' = [retry EXCEPT ![a] = {}]
  /\ retried' = retried \cup {e}
  /\ late' = late \cup {f \in {e} : row[f].status # "failed"}
  /\ tries' = [tries EXCEPT ![e] = 0]
  /\ UNCHANGED <<inline, worker>>

RetryCrash(a) ==
  /\ retry[a] # {}
  /\ retry' = [retry EXCEPT ![a] = {}]
  /\ UNCHANGED <<row, inline, worker, history>>

(* Time: a backoff runs out; ten minutes pass since a row was claimed.     *)
BackoffElapses(e) ==
  /\ row[e].next = "later" /\ row[e].status = "queued"
  /\ row' = [row EXCEPT ![e].next = "due"]
  /\ UNCHANGED <<inline, worker, retry, history>>

LeaseElapses(e) ==
  /\ row[e].status = "processing" /\ ~row[e].stale
  /\ row' = [row EXCEPT ![e].stale = TRUE]
  /\ UNCHANGED <<inline, worker, retry, history>>

-------------------------------------------------------------------------------
Init ==
  /\ row = [e \in Email |-> NoRow]
  /\ inline = [e \in Email |-> Idle]
  /\ worker = [w \in Worker |-> Idle]
  /\ retry = [a \in Request |-> {}]
  /\ retried = {}
  /\ late = {}
  /\ tries = [e \in Email |-> 0]

TimePasses(e) == BackoffElapses(e) \/ LeaseElapses(e)
InlineStep(e) == InlineRead(e) \/ InlineSend(e) \/ InlineRecord(e)
WorkerStep(w) == Recover(w) \/ Claim(w) \/ Send(w) \/ Record(w)

Next ==
  \/ \E e \in Email : Insert(e) \/ InlineStep(e) \/ InlineCrash(e) \/ Cancel(e) \/ TimePasses(e)
  \/ \E a \in Request : RetryCrash(a) \/ \E e \in Email : RetryRead(a, e) \/ RetryWrite(a, e)
  \/ \E w \in Worker : WorkerStep(w) \/ WorkerCrash(w)

Spec == Init /\ [][Next]_vars

(* Cron keeps invoking the worker; an invocation that is not killed goes   *)
(* on; time passes; kills stop in the end.  (A worker that claims nothing  *)
(* ends as if killed: such a step remains.)                                *)
Fairness ==
  /\ \A w \in Worker : WF_vars(WorkerStep(w))
  /\ \A e \in Email : /\ WF_vars(InlineStep(e))
                      /\ WF_vars(BackoffElapses(e))
                      /\ WF_vars(LeaseElapses(e))
  /\ <>[][\A w \in Worker : WorkerCrash(w) => WorkerStep(w)]_vars

FairSpec == Spec /\ Fairness

-------------------------------------------------------------------------------
(* Properties *)

Body == {"full", "redacted"}
InlineState == {Idle, [pc |-> "read"]} \cup [pc: {"send"}, body: Body]
                 \cup [pc: {"record"}, body: Body, outcome: Outcome]
Todo == UNION {[es -> [count: 0..MaxAttempts, body: Body]] : es \in SUBSET Email}
WorkerState == {Idle, [pc |-> "claim"]} \cup [pc: {"send"}, todo: Todo]
                 \cup [pc: {"record"}, todo: Todo, at: Email, outcome: Outcome]

(* Every variable has its type: a body is never null, no count is above    *)
(* max_attempts (email_queue).                                             *)
TypeOK ==
  /\ row \in [Email -> Row]
  /\ inline \in [Email -> InlineState]
  /\ worker \in [Worker -> WorkerState]
  /\ retry \in [Request -> SUBSET Email]
  /\ retried \subseteq Email
  /\ late \subseteq Email
  /\ tries \in [Email -> 0..2 * MaxAttempts]

(* Two workers have one row only after a write went over the one that had  *)
(* it: an inline send recorded late, a second retry, or a lease that ran   *)
(* out under a worker still running.  Claims alone never overlap.          *)
OneWorker ==
  \A e \in Email : e \notin late => \A v, w \in Worker : Holds(v, e) /\ Holds(w, e) => v = w

(* Somebody is at work on a row, or has looked at it and is about to be.   *)
Attended(e) ==
  \/ inline[e].pc # "idle"
  \/ \E w \in Worker : Holds(w, e)
  \/ \E a \in Request : e \in retry[a]

Over(e) ==
  \/ row[e].status \in {"sent", "cancelled"}
  \/ row[e].status = "failed" /\ e \in Credential

(* A message that is over, and that nobody is at work on, is never touched *)
(* again: not claimed, not retried, not revived by a lease.                *)
OverForGood ==
  [][\A e \in Email : Over(e) /\ ~Attended(e) => row'[e] = row[e] /\ ~Attended(e)']_vars

(* A message that no administrator has retried is given up only after      *)
(* max_attempts provider calls, whatever copies of the count are written   *)
(* back late.                                                              *)
NoEarlyFailure ==
  \A e \in Email : row[e].status = "failed" /\ e \notin retried => tries[e] >= MaxAttempts

(* A row that is over no longer carries a one-time link (DECISION-186).    *)
LinksRedacted ==
  \A e \in Credential : row[e].status \in {"sent", "failed", "cancelled"} => row[e].body = "redacted"

(* Every message ends: sent, failed or cancelled.                          *)
EveryMessageEnds ==
  \A e \in Email : row[e].status = "queued" ~> row[e].status \in {"sent", "failed", "cancelled"}

(* No provider call has the redaction marker for a body, unless some write *)
(* went over a state it had not seen: a record that comes after a          *)
(* cancellation queues a redacted row again (sendQueuedRow).               *)
MarkerOnlyAfterLateWrite ==
  \A e \in Email : e \notin late =>
    /\ inline[e].pc = "record" => inline[e].body = "full"
    /\ \A w \in Worker : worker[w].pc = "record" /\ worker[w].at = e => worker[w].todo[e].body = "full"

===============================================================================

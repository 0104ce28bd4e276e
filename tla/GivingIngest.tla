------------------------------ MODULE GivingIngest ------------------------------
(***************************************************************************)
(* The giving inbox (lib/giving/ingest, drizzle/0055): the provider tells  *)
(* of payments, refunds and disputes in events that arrive late, twice and *)
(* in any order; a worker claims an event, applies it to the ledger in one *)
(* transaction and finishes it in another.  Every event normalizes to at   *)
(* most one part (normalize.ts), which Part names.                         *)
(***************************************************************************)
EXTENDS GivingLedger

CONSTANTS
  Intent,      \* giving_checkout_intents with a session attached
  Monthly,     \* those of frequency monthly
  IntentOf,    \* [Payment -> Intent]
  Event,       \* provider events, by external_event_id
  Part,        \* [Event -> the part it normalizes to]
  After,       \* provider: [Event -> events that come before it]
  Excludes,    \* provider: [Event -> events it cannot come after]
  Stories,     \* bound: what may take place in a behaviour: events, entries at the desk, lapses
  MaxAttempts, \* attempts after which an event is dead: 8 in the code
  GraceAttempts \* REINSTATEMENT_GRACE_ATTEMPTS: 4 in the code

ASSUME AttemptAssumption ==
  MaxAttempts \in Nat \ {0} /\ GraceAttempts \in 1..MaxAttempts
ASSUME IntentAssumption ==
  /\ Monthly \subseteq Intent
  /\ \A p \in Payment \ Offline : IntentOf[p] \in Intent
(* Events are about gifts, reversals and intents the provider knows; it    *)
(* takes back no payment that failed.  A renewal is told of when it is     *)
(* paid (invoice_payment.paid); one that fails comes as a subscription's   *)
(* payment_failed, which sets a flag on the intent and is left out.  A     *)
(* void is of the whole gift, once (giving_reversals_void_idx).            *)
ASSUME PartAssumption ==
  \A e \in Event :
    \/ /\ Part[e].kind = "gift" /\ Part[e].pay \in Payment \ Offline
       /\ Part[e].status \in Status \ {"none"}
       /\ IntentOf[Part[e].pay] \in Monthly => Part[e].status = "succeeded"
    \/ Part[e].kind = "fee" /\ Part[e].pay \in Payment \ Offline
    \/ /\ Part[e].kind = "reversal" /\ Part[e].key \in Key
       /\ Reversal[Part[e].key].pay \notin Offline
    \/ Part[e].kind \in {"started", "ended", "expired"} /\ Part[e].intent \in Intent
ASSUME FailedAssumption ==
  \A e, f \in Event :
    (/\ Part[e].kind = "gift" /\ Part[e].status = "failed"
     /\ Part[f].kind = "reversal" /\ Reversal[Part[f].key].pay = Part[e].pay)
    => e \in Excludes[f] /\ f \in Excludes[e]
ASSUME VoidAssumption ==
  \A k \in Key : Reversal[k].kind = "void" =>
    /\ Reversal[k].amount = Price[Reversal[k].pay]
    /\ \A l \in Key : Reversal[l].kind = "void" /\ Reversal[l].pay = Reversal[k].pay => l = k
ASSUME StoryAssumption == Stories \subseteq SUBSET (Event \cup Offline \cup Intent)

VARIABLES
  intent,       \* [status, sub, ended] of each intent: its subscription is known, is over
  inbox,        \* giving_provider_events
  verdict,      \* the worker's: what the claimed event came to, NoVerdict while it is not applied
  story,        \* bound: what may take place in this behaviour
  happened      \* provider: those that did

vars == <<gift, fee, taken, intent, inbox, verdict, story, happened>>
provider == <<story, happened>>

Terminal == {"applied", "ignored", "dead_letter"}
Code == {"", "no_gift", "gift_pending", "gift_failed", "no_reversal", "no_subscription", "over_reversal"}
NoVerdict == [outcome |-> "none", code |-> ""]
NoRow == [status |-> "none", attempts |-> 0, code |-> ""]

Least(m, n) == IF m < n THEN m ELSE n

-------------------------------------------------------------------------------
(* The provider, and presby_giving_ingest_event: a second delivery finds   *)
(* the row of the first and writes nothing.                                *)

Happens(e) ==
  /\ e \in (Event \cap story) \ happened
  /\ After[e] \cap story \subseteq happened
  /\ Excludes[e] \cap happened = {}
  /\ happened' = happened \cup {e}
  /\ UNCHANGED <<ledger, intent, inbox, verdict, story>>

Ingest(e) ==
  /\ e \in happened /\ inbox[e].status = "none"
  /\ inbox' = [inbox EXCEPT ![e].status = "received"]
  /\ UNCHANGED <<ledger, intent, verdict, provider>>

-------------------------------------------------------------------------------
(* presby_giving_claim_event.  An event in processing is claimed again     *)
(* once its lease is over: the worker that had it was killed, for none     *)
(* runs as long as a lease (30 seconds, 2 minutes).  Attempts are counted  *)
(* up to the limits they are compared with.                                *)
Claim(e) ==
  /\ inbox[e].status \in {"received", "parked", "processing"}
  /\ inbox' = [inbox EXCEPT ![e].status = "processing",
                            ![e].attempts = Least(@ + 1, MaxAttempts)]
  /\ verdict' = [verdict EXCEPT ![e] = NoVerdict]
  /\ UNCHANGED <<ledger, intent, provider>>

Claimed(e) == inbox[e].status = "processing" /\ verdict[e] = NoVerdict

(* The part is applied, and what comes back is kept for the finish.        *)
Returns(e, outcome, code) ==
  /\ verdict' = [verdict EXCEPT ![e] = [outcome |-> outcome, code |-> code]]
  /\ UNCHANGED <<inbox, provider>>

Unwritten == UNCHANGED <<ledger, intent>>

(* An error of the database or the provider: nothing is written.  (A body  *)
(* that makes no sense is a dead letter at once; it ends here as one that  *)
(* fails to the last attempt.)                                             *)
Break(e) == Claimed(e) /\ Returns(e, "failed", "") /\ Unwritten

-------------------------------------------------------------------------------
(* presby_giving_apply_gift.  The part names its intent and its amount, so *)
(* the outcomes for one that does not (dead, ignored:no_intent) are out,   *)
(* and ignored:renewal_failed, for a monthly gift reported as failed,      *)
(* which no event normalizes to.                                           *)

Completed(i) == [intent EXCEPT ![i].status = IF @ = "open" THEN "completed" ELSE @]

(* A slip: an older status that comes late is written.                     *)
GiftAppliedLate(e, p, status) ==
  CASE gift[p] = "none" ->
         /\ gift' = [gift EXCEPT ![p] = status]
         /\ intent' = Completed(IntentOf[p])
         /\ Returns(e, "applied", "") /\ UNCHANGED <<fee, taken>>
    [] OTHER -> gift' = [gift EXCEPT ![p] = status] /\ Returns(e, "applied", "")
                /\ UNCHANGED <<fee, taken, intent>>

GiftApplied(e, p, status) ==
  \/ /\ gift[p] = "none"
     /\ gift' = [gift EXCEPT ![p] = status]
     /\ intent' = Completed(IntentOf[p])
     /\ Returns(e, "applied", "") /\ UNCHANGED <<fee, taken>>
  \/ /\ gift[p] # "none" /\ status \in {gift[p], "pending"}
     /\ Returns(e, "applied", "") /\ Unwritten                  \* noop
  \/ /\ gift[p] = "pending" /\ status # "pending"
     /\ gift' = [gift EXCEPT ![p] = status]
     /\ Returns(e, "applied", "") /\ UNCHANGED <<fee, taken, intent>>
  \/ /\ gift[p] \in {"succeeded", "failed"} \ {status} /\ status # "pending"
     /\ Returns(e, "dead", "") /\ Unwritten

(* A gift of a monthly intent names its subscription, a single gift its    *)
(* session.                                                                *)
ApplyGift(e) ==
  LET p == Part[e].pay
      i == IntentOf[p]
  IN
  /\ Claimed(e) /\ Part[e].kind = "gift"
  /\ \/ i \in Monthly /\ ~intent[i].sub /\ Returns(e, "parked", "no_subscription") /\ Unwritten
     \/ i \notin Monthly /\ GiftApplied(e, p, Part[e].status)
     \/ i \in Monthly /\ intent[i].sub /\ GiftApplied(e, p, Part[e].status)

(* presby_giving_apply_gift_fee *)
ApplyGiftFee(e) ==
  LET p == Part[e].pay IN
  /\ Claimed(e) /\ Part[e].kind = "fee"
  /\ \/ gift[p] = "none" /\ Returns(e, "parked", "no_gift") /\ Unwritten
     \/ gift[p] # "none" /\ p \in fee /\ Returns(e, "applied", "") /\ Unwritten
     \/ /\ gift[p] # "none" /\ p \notin fee
        /\ fee' = fee \cup {p}
        /\ Returns(e, "applied", "") /\ UNCHANGED <<gift, taken, intent>>

-------------------------------------------------------------------------------
(* presby_giving_apply_reversal.  A missing reversal is waited for while   *)
(* there are attempts of the grace left (applyOne).                        *)

(* A slip: a reversal does not wait for its gift to succeed.               *)
ReversalAppliedEarly(e, k) ==
  /\ k \notin taken
  /\ gift[Reversal[k].pay] \in {"pending", "succeeded"} /\ Bound(k, taken)
  /\ taken' = taken \cup {k}
  /\ Returns(e, "applied", "") /\ UNCHANGED <<gift, fee, intent>>

Missing(k) == IsReinstatement(k) /\ Reversal[k].offsets \notin Of(Reversal[k].pay, taken)

ReversalApplied(e, k) ==
  LET status == gift[Reversal[k].pay] IN
  \/ k \in taken /\ Returns(e, "applied", "") /\ Unwritten      \* noop
  \/ k \notin taken /\ status = "none" /\ Returns(e, "parked", "no_gift") /\ Unwritten
  \/ k \notin taken /\ status = "pending" /\ Returns(e, "parked", "gift_pending") /\ Unwritten
  \/ k \notin taken /\ status = "failed" /\ Returns(e, "ignored", "gift_failed") /\ Unwritten
  \/ /\ k \notin taken /\ status = "succeeded" /\ Missing(k)
     /\ Returns(e, IF inbox[e].attempts >= GraceAttempts THEN "ignored" ELSE "parked", "no_reversal")
     /\ Unwritten
  \/ /\ k \notin taken /\ status = "succeeded" /\ ~Missing(k) /\ ~Bound(k, taken)
     /\ Returns(e, "dead", "over_reversal") /\ Unwritten
  \/ /\ k \notin taken /\ status = "succeeded" /\ ~Missing(k) /\ Bound(k, taken)
     /\ taken' = taken \cup {k}
     /\ Returns(e, "applied", "") /\ UNCHANGED <<gift, fee, intent>>

ApplyReversal(e) == Claimed(e) /\ Part[e].kind = "reversal" /\ ReversalApplied(e, Part[e].key)

-------------------------------------------------------------------------------
(* presby_giving_apply_subscription, presby_giving_apply_intent_expired    *)

SubscriptionStarted(e) ==
  LET i == Part[e].intent IN
  /\ Claimed(e) /\ Part[e].kind = "started"
  /\ intent' = [intent EXCEPT ![i] = IF @.sub THEN @ ELSE [Completed(i)[i] EXCEPT !.sub = TRUE]]
  /\ Returns(e, "applied", "") /\ UNCHANGED ledger

SubscriptionEnded(e) ==
  LET i == Part[e].intent IN
  /\ Claimed(e) /\ Part[e].kind = "ended"
  /\ \/ ~intent[i].sub /\ Returns(e, "parked", "no_subscription") /\ Unwritten
     \/ /\ intent[i].sub
        /\ intent' = [intent EXCEPT ![i].ended = TRUE]
        /\ Returns(e, "applied", "") /\ UNCHANGED ledger

IntentExpired(e) ==
  LET i == Part[e].intent IN
  /\ Claimed(e) /\ Part[e].kind = "expired"
  /\ intent' = [intent EXCEPT ![i].status = IF @ = "open" THEN "expired" ELSE @]
  /\ Returns(e, "applied", "") /\ UNCHANGED ledger

(* presby_giving_expire_intents: the cron, a day after an intent was made. *)
ExpireIntent(i) ==
  /\ i \in story /\ intent[i].status = "open"
  /\ intent' = [intent EXCEPT ![i].status = "expired"]
  /\ UNCHANGED <<ledger, inbox, verdict, provider>>

-------------------------------------------------------------------------------
(* presby_giving_finish_event.  old: the event was received more than 24   *)
(* hours ago.  What is never read again, the attempts of a terminal row    *)
(* and the code of the others, is forgotten.                               *)

(* Slips: a status the table does not know; an event that fails is retried *)
(* for ever.                                                               *)
FinishedDead(v, attempts, old) ==
  CASE v.outcome \in {"applied", "ignored", "dead"} -> v.outcome
    [] v.outcome = "parked" /\ v.code \in {"no_gift", "no_subscription"} ->
         IF old THEN "ignored" ELSE "parked"
    [] OTHER -> IF attempts >= MaxAttempts THEN "dead_letter" ELSE "parked"

FinishedForEver(v, attempts, old) ==
  CASE v.outcome \in {"applied", "ignored"} -> v.outcome
    [] v.outcome = "dead" -> "dead_letter"
    [] v.outcome = "parked" /\ v.code \in {"no_gift", "no_subscription"} ->
         IF old THEN "ignored" ELSE "parked"
    [] OTHER -> "parked"

Finished(v, attempts, old) ==
  CASE v.outcome \in {"applied", "ignored"} -> v.outcome
    [] v.outcome = "dead" -> "dead_letter"
    [] v.outcome = "parked" /\ v.code \in {"no_gift", "no_subscription"} ->
         IF old THEN "ignored" ELSE "parked"
    [] OTHER -> IF attempts >= MaxAttempts THEN "dead_letter" ELSE "parked"

Finish(e, old) ==
  LET status == Finished(verdict[e], inbox[e].attempts, old) IN
  /\ inbox[e].status = "processing" /\ verdict[e] # NoVerdict
  /\ inbox' = [inbox EXCEPT ![e] =
       [status |-> status, code |-> IF status = "ignored" THEN verdict[e].code ELSE "",
        attempts |-> IF status \in Terminal THEN 0 ELSE @.attempts]]
  /\ verdict' = [verdict EXCEPT ![e] = NoVerdict]
  /\ UNCHANGED <<ledger, intent, provider>>

(* presby_giving_requeue_event: only a dead letter, from its first attempt.*)
Requeue(e) ==
  /\ inbox[e].status = "dead_letter"
  /\ inbox' = [inbox EXCEPT ![e].status = "received", ![e].attempts = 0]
  /\ UNCHANGED <<ledger, intent, verdict, provider>>

-------------------------------------------------------------------------------
(* The desk: presby_giving_record_offline_gift, presby_giving_void_gift.   *)

RecordOfflineGift(p) ==
  /\ p \in Offline \cap story /\ gift[p] = "none"
  /\ gift' = [gift EXCEPT ![p] = "succeeded"]
  /\ UNCHANGED <<fee, taken, intent, inbox, verdict, provider>>

VoidGift(k) ==
  LET p == Reversal[k].pay IN
  /\ Reversal[k].kind = "void" /\ p \in Offline
  /\ gift[p] = "succeeded"
  /\ k \notin taken
  /\ taken' = taken \cup {k}
  /\ UNCHANGED <<gift, fee, intent, inbox, verdict, provider>>

-------------------------------------------------------------------------------
Start ==
  /\ Init
  /\ intent = [i \in Intent |-> [status |-> "open", sub |-> FALSE, ended |-> FALSE]]
  /\ inbox = [e \in Event |-> NoRow]
  /\ verdict = [e \in Event |-> NoVerdict]
  /\ story \in Stories
  /\ happened = {}

Apply(e) ==
  \/ ApplyGift(e) \/ ApplyGiftFee(e) \/ ApplyReversal(e)
  \/ SubscriptionStarted(e) \/ SubscriptionEnded(e) \/ IntentExpired(e)

Work(e) == Apply(e) \/ Break(e) \/ \E old \in BOOLEAN : Finish(e, old)

Step ==
  \/ \E e \in Event : \/ Happens(e) \/ Ingest(e) \/ Claim(e) \/ Work(e) \/ Requeue(e)
  \/ \E i \in Intent : ExpireIntent(i)
  \/ \E p \in Payment : RecordOfflineGift(p)
  \/ \E k \in Key : VoidGift(k)

IngestSpec == Start /\ [][Step]_vars

(* A worker that is not killed goes on; the cron comes back to what is due *)
(* and to leases that are over; an event that is retried for ever becomes  *)
(* older than a day; workers are not killed for ever.                      *)
Fairness ==
  /\ \A e \in Event : /\ WF_vars(Claim(e) /\ inbox[e].status # "processing")
                      /\ WF_vars(Work(e))
                      /\ SF_vars(Finish(e, TRUE))
  /\ <>[][\A e \in Event : Claim(e) => inbox[e].status # "processing"]_vars

FairSpec == IngestSpec /\ Fairness

-------------------------------------------------------------------------------
(* Properties *)

Row == [status: {"none", "received", "parked", "processing"} \cup Terminal,
        attempts: 0..MaxAttempts, code: Code]

(* Every variable has its type; an event's status is one the table knows   *)
(* (giving_events_status_allowed).                                *)
TypeOK ==
  /\ gift \in [Payment -> Status]
  /\ fee \subseteq Payment
  /\ taken \subseteq Key
  /\ intent \in [Intent -> [status: {"open", "completed", "expired"}, sub: BOOLEAN, ended: BOOLEAN]]
  /\ inbox \in [Event -> Row]
  /\ verdict \in [Event -> [outcome: {"none", "applied", "ignored", "parked", "failed", "dead"}, code: Code]]
  /\ story \in Stories /\ happened \subseteq story \cap Event

(* What the provider did, by payment: the last of its statuses.            *)
Reported(p, status) ==
  \E e \in happened : Part[e].kind = "gift" /\ Part[e].pay = p /\ Part[e].status = status
TrueStatus(p) ==
  IF Reported(p, "failed") THEN "failed"
  ELSE IF Reported(p, "succeeded") THEN "succeeded"
  ELSE IF Reported(p, "pending") THEN "pending" ELSE "none"
TrueKeys ==
  LET told == {Part[e].key : e \in {x \in happened : Part[x].kind = "reversal"}}
  IN  {k \in told : IsReinstatement(k) => Reversal[k].offsets \in told}
TrueFees == {Part[e].pay : e \in {x \in happened : Part[x].kind = "fee"}}

(* An event that was given up though what it waits for took place.         *)
GivenUp(e) ==
  /\ inbox[e].status = "ignored"
  /\ \/ inbox[e].code \in {"no_gift", "no_subscription"}
     \/ inbox[e].code = "no_reversal" /\ Part[e].key \in TrueKeys

Settled ==
  \A e \in happened : inbox[e].status \in {"applied", "ignored"} /\ ~GivenUp(e)

(* Whatever the order, the repetitions and the crashes: when every event   *)
(* is over and none was given up or is a dead letter, the ledger is the    *)
(* provider's, gift by gift and reversal by reversal.                      *)
Converged ==
  Settled => /\ \A p \in Payment \ Offline : gift[p] = TrueStatus(p)
             /\ {k \in taken : Reversal[k].pay \notin Offline} = TrueKeys
             /\ fee = TrueFees

(* The functions write what the triggers of the tables accept: an apply    *)
(* never ends in an exception of a guard (which would be retried in vain). *)
LedgerKept == Spec

(* A delivered event ends: applied, ignored or a dead letter an admin sees.*)
EveryEventEnds ==
  \A e \in Event : inbox[e].status = "received" ~> inbox[e].status \in Terminal

===============================================================================

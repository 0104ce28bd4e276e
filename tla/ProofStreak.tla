------------------------------ MODULE ProofStreak ------------------------------
(***************************************************************************)
(* When a domain row loses its proof, and when a live one stops serving:   *)
(* the two miss counters of lib/domains/debounce.ts as observeAndAdvance   *)
(* keeps them in a row (proof_miss_count, observation.proofMissSince,      *)
(* probe_miss_count), across the states a row passes through.              *)
(*                                                                         *)
(* One row.  attach_pending and attached treat the proof alike and are one *)
(* state here.  Time is a number of ticks since an event, which stops      *)
(* mattering, and stops, at Span.                                          *)
(***************************************************************************)
EXTENDS Integers

CONSTANTS
  Checker,       \* checks that may overlap
  Misses,        \* DOMAIN_POLICY.proofLostMisses
  Span,          \* DOMAIN_POLICY.proofLostMinSpanMs, in ticks
  Scheduled,     \* DOMAIN_POLICY.liveLostScheduledMisses
  Removable      \* whether the claim may be removed and reconnected

ASSUME PolicyAssumption ==
  Misses \in Nat \ {0} /\ Span \in Nat /\ Scheduled \in Nat \ {0} /\ Removable \in BOOLEAN

VARIABLES
  txt,      \* the proof record is in the DNS
  state,    \* the row's state
  count,    \* proof_miss_count, as far as Misses
  since,    \* age of observation.proofMissSince, Never when there is none
  probes,   \* probe_miss_count, as far as Scheduled
  flight,   \* the checks in flight
  streak,   \* history: misses applied with no later proof applied before them
  first,    \* history: age of the first of them
  bad       \* history: negative probes applied since the last ack

vars == <<txt, state, count, since, probes, flight, streak, first, bad>>

Never == -1
Age == {Never} \cup 0..Span
Least(m, n) == IF m < n THEN m ELSE n
Older(a) == IF a = Never THEN Never ELSE Least(a + 1, Span)

State == {"verified", "attached", "live", "lapsed", "parked"}
Kept == {"verified", "attached", "live"}
Proof == {"present", "absent", "unknown"}
Probe == {"ack", "negative", "unknown"}

NoCheck == [proof |-> "none"]
Observation == [proof: Proof, probe: Probe, forced: BOOLEAN, seen: State,
                earlier: SUBSET Checker, outdated: BOOLEAN]

-------------------------------------------------------------------------------
(* stepProofStreak *)

(* Slips: the count never saturates; an unknown lookup restarts the span.  *)
ProofStepUncapped(observed) ==
  CASE observed = "present" -> [count |-> 0, since |-> Never, lost |-> FALSE]
    [] observed = "unknown" -> [count |-> count, since |-> since, lost |-> FALSE]
    [] observed = "absent" ->
         LET c == count + 1
             s == IF since = Never THEN 0 ELSE since
         IN [count |-> c, since |-> s, lost |-> c >= Misses /\ s >= Span]

ProofStepUnknownRestarts(observed) ==
  CASE observed = "present" -> [count |-> 0, since |-> Never, lost |-> FALSE]
    [] observed = "unknown" -> [count |-> count, since |-> Never, lost |-> FALSE]
    [] observed = "absent" ->
         LET c == Least(count + 1, Misses)
             s == IF since = Never THEN 0 ELSE since
         IN [count |-> c, since |-> s, lost |-> c >= Misses /\ s >= Span]

ProofStep(observed) ==
  CASE observed = "present" -> [count |-> 0, since |-> Never, lost |-> FALSE]
    [] observed = "unknown" -> [count |-> count, since |-> since, lost |-> FALSE]
    [] observed = "absent" ->
         LET c == Least(count + 1, Misses)
             s == IF since = Never THEN 0 ELSE since
         IN [count |-> c, since |-> s, lost |-> c >= Misses /\ s >= Span]

(* stepProbeStreak *)

ProbeStep(observed, forced) ==
  CASE observed = "ack" -> [count |-> 0, lost |-> FALSE]
    [] observed = "unknown" -> [count |-> probes, lost |-> FALSE]
    [] observed = "negative" ->
         LET c == Least(probes + 1, Scheduled)
         IN [count |-> c, lost |-> c >= IF forced THEN 1 ELSE Scheduled]

-------------------------------------------------------------------------------
Init ==
  /\ txt = TRUE
  /\ state = "verified" /\ count = 0 /\ since = Never /\ probes = 0
  /\ flight = [k \in Checker |-> NoCheck]
  /\ streak = 0 /\ first = Never /\ bad = 0

(* The lookup and the probe, out of any transaction.                       *)
Observe(k) ==
  /\ flight[k] = NoCheck
  /\ \E proof \in {"unknown", IF txt THEN "present" ELSE "absent"},
        probe \in Probe, forced \in BOOLEAN :
       flight' = [flight EXCEPT ![k] =
         [proof |-> proof, probe |-> probe, forced |-> forced, seen |-> state,
          earlier |-> {j \in Checker : flight[j] # NoCheck}, outdated |-> FALSE]]
  /\ UNCHANGED <<txt, state, count, since, probes, streak, first, bad>>

(* What the history makes of an applied observation: the one it is, and    *)
(* that the ones made before a proof are no evidence of a loss after it.   *)
Landed(k) ==
  LET ob == flight[k] IN
  /\ flight' = [j \in Checker |->
       CASE j = k -> NoCheck
         [] j # k /\ flight[j] # NoCheck ->
              [flight[j] EXCEPT
                 !.outdated = @ \/ (ob.proof = "present" /\ j \in ob.earlier),
                 !.earlier = @ \ {k}]
         [] OTHER -> NoCheck]
  /\ CASE ob.proof = "present" -> streak' = 0 /\ first' = Never
       [] ob.proof = "absent" /\ ~ob.outdated ->
            /\ streak' = Least(streak + 1, Misses)
            /\ first' = IF first = Never THEN 0 ELSE first
       [] OTHER -> UNCHANGED <<streak, first>>

(* applyVerified, applyAttachPending, applyServing: keep the proof streak  *)
(* first; only a row whose proof is present goes on to the probe.          *)
ApplyKept(k) ==
  LET ob == flight[k]
      proof == ProofStep(ob.proof)
      probe == ProbeStep(ob.probe, ob.forced)
      present == ob.proof = "present"
  IN
  /\ ob # NoCheck
  /\ state \in Kept /\ ob.seen = state
  /\ count' = proof.count /\ since' = proof.since
  /\ CASE proof.lost -> state' = "lapsed" /\ UNCHANGED <<probes, bad>>
       [] present /\ state = "verified" -> state' = "attached" /\ UNCHANGED <<probes, bad>>
       [] present /\ state = "attached" /\ ob.probe = "ack" ->
            state' = "live" /\ probes' = 0 /\ bad' = 0
       [] present /\ state = "live" ->
            /\ state' = IF probe.lost THEN "attached" ELSE "live"
            /\ probes' = IF probe.lost THEN 0 ELSE probe.count
            /\ bad' = CASE ob.probe = "negative" -> Least(bad + 1, Scheduled)
                        [] ob.probe = "ack" -> 0
                        [] OTHER -> bad
       [] OTHER -> UNCHANGED <<state, probes, bad>>
  /\ Landed(k)
  /\ UNCHANGED txt

(* applyLapsed: proof restored, or another look that counts nothing.  It   *)
(* drops proofMissSince from the observation either way.                   *)
ApplyLapsed(k) ==
  LET ob == flight[k] IN
  /\ ob # NoCheck
  /\ state = "lapsed" /\ ob.seen = state
  /\ since' = Never
  /\ IF ob.proof = "present" THEN state' = "verified" /\ count' = 0 ELSE UNCHANGED <<state, count>>
  /\ Landed(k)
  /\ UNCHANGED <<txt, probes, bad>>

(* The row moved while the check was out, or is parked (whose check reads  *)
(* no proof): what was seen is dropped.                                    *)
ApplyDropped(k) ==
  /\ flight[k] # NoCheck
  /\ flight[k].seen # state \/ state = "parked"
  /\ flight' = [j \in Checker |->
       IF j = k \/ flight[j] = NoCheck THEN NoCheck
       ELSE [flight[j] EXCEPT !.earlier = @ \ {k}]]
  /\ UNCHANGED <<txt, state, count, since, probes, streak, first, bad>>

(* removeClaim parks a row that is or may be attached; its counters stay.  *)
(* (A verified row it releases, and that row's story is over.)             *)
Remove ==
  /\ Removable
  /\ state \in {"attached", "live", "lapsed"}
  /\ state' = "parked"
  /\ UNCHANGED <<txt, count, since, probes, flight, streak, first, bad>>

(* A slip: the count is kept.                                              *)
ReconnectKeepingCount ==
  /\ Removable /\ state = "parked" /\ txt
  /\ state' = "verified" /\ probes' = 0
  /\ streak' = 0 /\ first' = Never /\ bad' = 0
  /\ flight' = [k \in Checker |-> IF flight[k] = NoCheck THEN NoCheck
                                  ELSE [flight[k] EXCEPT !.outdated = TRUE]]
  /\ UNCHANGED <<txt, count, since>>

(* reconnectClaim, the proof just seen: both counts restart.               *)
Reconnect ==
  /\ Removable
  /\ state = "parked"
  /\ txt
  /\ state' = "verified" /\ count' = 0 /\ probes' = 0
  /\ streak' = 0 /\ first' = Never /\ bad' = 0
  /\ flight' = [k \in Checker |-> IF flight[k] = NoCheck THEN NoCheck
                                  ELSE [flight[k] EXCEPT !.outdated = TRUE]]
  /\ UNCHANGED <<txt, since>>

Tick ==
  /\ since' = Older(since)
  /\ first' = Older(first)
  /\ UNCHANGED <<txt, state, count, probes, flight, streak, bad>>

(* The church, or its DNS host, adds or loses the record.                  *)
RecordChanges ==
  /\ txt' = ~txt
  /\ UNCHANGED <<state, count, since, probes, flight, streak, first, bad>>

Next ==
  \/ \E k \in Checker : Observe(k) \/ ApplyKept(k) \/ ApplyLapsed(k) \/ ApplyDropped(k)
  \/ Remove \/ Reconnect \/ Tick \/ RecordChanges

Spec == Init /\ [][Next]_vars

(* Cron keeps checking, time passes, and the resolvers answer in the end.  *)
Fairness ==
  \A k \in Checker :
    /\ SF_vars(Observe(k) /\ flight'[k].proof # "unknown")
    /\ WF_vars(ApplyKept(k) \/ ApplyLapsed(k) \/ ApplyDropped(k))
    /\ WF_vars(Tick)

FairSpec == Spec /\ Fairness

-------------------------------------------------------------------------------
(* Properties *)

(* Every variable has its type, the counters within the policy's numbers   *)
(* (proof_miss_count, probe_miss_count).                                   *)
TypeOK ==
  /\ txt \in BOOLEAN
  /\ state \in State
  /\ count \in 0..Misses /\ streak \in 0..Misses
  /\ since \in Age /\ first \in Age
  /\ probes \in 0..Scheduled /\ bad \in 0..Scheduled
  /\ flight \in [Checker -> Observation \cup {NoCheck}]

(* A lapse needs proofLostMisses consecutive definitive misses: none of    *)
(* them seen before a proof that was applied before it.                    *)
LapseNeedsMisses == [][state # "lapsed" /\ state' = "lapsed" => streak' >= Misses]_vars

(* ... and the first of them at least proofLostMinSpanMs ago, so a burst   *)
(* of checks never darkens a site.                                         *)
LapseNeedsSpan ==
  [][state # "lapsed" /\ state' = "lapsed" => first' # Never /\ first' >= Span]_vars

(* A live host leaves service for its probe only after the scheduled       *)
(* number of consecutive negatives, or one that a person asked for.        *)
LiveLostNeedsProbes ==
  [][\A k \in Checker :
       state = "live" /\ state' = "attached" /\ flight[k] # NoCheck /\ flight'[k] = NoCheck
         => flight[k].probe = "negative" /\ (flight[k].forced \/ bad' >= Scheduled)]_vars

(* A record that is gone for good is noticed: the site does not keep       *)
(* serving a name its church no longer controls.                           *)
LossIsNoticed == []<>(txt \/ state \in {"lapsed", "parked"})

===============================================================================

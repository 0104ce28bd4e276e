--------------------------- MODULE ProofStreakProofs ---------------------------
(***************************************************************************)
(* Proofs about the miss counters, for every policy.                       *)
(*                                                                         *)
(* Each counter is compared with the history it stands for.  The probe     *)
(* count never exceeds the negatives applied, whoever applies them         *)
(* (ProbeInv).  The proof count never exceeds the misses in a row, and     *)
(* proofMissSince is never older than the first of them, provided checks   *)
(* of a row do not overlap - and, for the span, the claim is not removed   *)
(* and reconnected: TLC refutes both without.                              *)
(***************************************************************************)
EXTENDS ProofStreak, TLAPS

USE PolicyAssumption

LEMMA LeastIsLeast ==
  ASSUME NEW m \in Nat, NEW n \in Nat
  PROVE  Least(m, n) \in Nat /\ Least(m, n) <= m /\ Least(m, n) <= n /\ Least(m, n) \in {m, n}
BY DEF Least

LEMMA LeastKeepsOrder ==
  ASSUME NEW m \in Nat, NEW n \in Nat, NEW top \in Nat, m <= n
  PROVE  Least(m + 1, top) <= Least(n + 1, top)
BY DEF Least

LEMMA OlderIsAge ==
  ASSUME NEW a \in Age
  PROVE  Older(a) \in Age /\ (Older(a) = Never <=> a = Never)
BY DEF Older, Age, Least, Never

LEMMA ProofStepTyped ==
  ASSUME TypeOK, NEW observed \in Proof
  PROVE  /\ ProofStep(observed).count \in 0..Misses
         /\ ProofStep(observed).since \in Age
         /\ ProofStep(observed).lost \in BOOLEAN
<1>1. CASE observed = "present"
  <2>1. ProofStep(observed) = [count |-> 0, since |-> Never, lost |-> FALSE]
    BY <1>1 DEF ProofStep
  <2>. QED BY <2>1 DEF Age
<1>2. CASE observed = "unknown"
  BY <1>2 DEF ProofStep, TypeOK
<1>3. CASE observed = "absent"
  <2>. DEFINE c == Least(count + 1, Misses)
              s == IF since = Never THEN 0 ELSE since
  <2>1. c \in 0..Misses
    BY DEF TypeOK, Least
  <2>2. s \in Age
    BY DEF TypeOK, Age
  <2>3. ProofStep(observed) = [count |-> c, since |-> s, lost |-> c >= Misses /\ s >= Span]
    BY <1>3 DEF ProofStep
  <2>. HIDE DEF c, s
  <2>. QED BY <2>1, <2>2, <2>3
<1>. QED BY <1>1, <1>2, <1>3 DEF Proof

LEMMA ProbeStepTyped ==
  ASSUME TypeOK, NEW observed \in Probe, NEW forced \in BOOLEAN
  PROVE  ProbeStep(observed, forced).count \in 0..Scheduled
BY DEF ProbeStep, Probe, TypeOK, Least

(* What landing an observation makes of the history.                       *)
LEMMA LandedHistory ==
  ASSUME NEW k \in Checker, flight[k] \in Observation, Landed(k)
  PROVE  /\ flight[k].proof = "present" => streak' = 0 /\ first' = Never
         /\ flight[k].proof = "absent" /\ ~flight[k].outdated =>
              /\ streak' = Least(streak + 1, Misses)
              /\ first' = IF first = Never THEN 0 ELSE first
         /\ flight[k].proof = "unknown" \/ (flight[k].proof = "absent" /\ flight[k].outdated) =>
              streak' = streak /\ first' = first
<1>. DEFINE ob == flight[k]
<1>1. (CASE ob.proof = "present" -> streak' = 0 /\ first' = Never
         [] ob.proof = "absent" /\ ~ob.outdated ->
              /\ streak' = Least(streak + 1, Misses)
              /\ first' = IF first = Never THEN 0 ELSE first
         [] OTHER -> UNCHANGED <<streak, first>>)
  BY DEF Landed
<1>2. CASE ob.proof = "present"
  BY <1>1, <1>2
<1>3. CASE ob.proof = "absent" /\ ~ob.outdated
  BY <1>1, <1>3
<1>4. CASE ob.proof = "unknown" \/ (ob.proof = "absent" /\ ob.outdated)
  BY <1>1, <1>4
<1>. QED BY <1>2, <1>3, <1>4 DEF Observation, Proof

LEMMA LandedTyped ==
  ASSUME TypeOK, NEW k \in Checker, flight[k] # NoCheck, Landed(k)
  PROVE  streak' \in 0..Misses /\ first' \in Age /\ flight' \in [Checker -> Observation \cup {NoCheck}]
<1>1. flight[k] \in Observation
  BY DEF TypeOK
<1>2. streak' \in 0..Misses
  BY <1>1, LandedHistory DEF TypeOK, Least, Observation, Proof
<1>3. first' \in Age
  BY <1>1, LandedHistory DEF TypeOK, Age, Never, Observation, Proof
<1>4. ASSUME NEW j \in Checker, flight[j] # NoCheck, j # k
      PROVE  flight'[j] \in Observation
  <2>1. flight[j] \in Observation
    BY <1>4 DEF TypeOK
  <2>2. flight'[j] = [flight[j] EXCEPT
          !.outdated = @ \/ (flight[k].proof = "present" /\ j \in flight[k].earlier),
          !.earlier = @ \ {k}]
    BY <1>4 DEF Landed
  <2>3. (flight[j].outdated \/ (flight[k].proof = "present" /\ j \in flight[k].earlier)) \in BOOLEAN
    OBVIOUS
  <2>4. flight[j].earlier \ {k} \in SUBSET Checker
    BY <2>1 DEF Observation
  <2>. QED BY <2>1, <2>2, <2>3, <2>4 DEF Observation
<1>5. \A j \in Checker : j = k \/ flight[j] = NoCheck => flight'[j] = NoCheck
  BY DEF Landed
<1>6. flight' \in [Checker -> Observation \cup {NoCheck}]
  <2>1. flight' = [j \in Checker |-> flight'[j]]
    BY DEF Landed
  <2>. QED BY <1>4, <1>5, <2>1
<1>. QED BY <1>2, <1>3, <1>6

LEMMA StepKeepsType ==
  ASSUME TypeOK, [Next]_vars
  PROVE  TypeOK'
<1>1. ASSUME NEW k \in Checker, Observe(k) PROVE TypeOK'
  <2>1. PICK proof \in {"unknown", IF txt THEN "present" ELSE "absent"},
             probe \in Probe, forced \in BOOLEAN :
          flight' = [flight EXCEPT ![k] =
            [proof |-> proof, probe |-> probe, forced |-> forced, seen |-> state,
             earlier |-> {j \in Checker : flight[j] # NoCheck}, outdated |-> FALSE]]
    BY <1>1 DEF Observe
  <2>2. proof \in Proof
    BY DEF Proof
  <2>3. [proof |-> proof, probe |-> probe, forced |-> forced, seen |-> state,
         earlier |-> {j \in Checker : flight[j] # NoCheck}, outdated |-> FALSE] \in Observation
    BY <2>2 DEF TypeOK, Observation
  <2>4. flight' \in [Checker -> Observation \cup {NoCheck}]
    BY <2>1, <2>3 DEF TypeOK
  <2>. QED BY <1>1, <2>4 DEF Observe, TypeOK
<1>2. ASSUME NEW k \in Checker, ApplyKept(k) PROVE TypeOK'
  <2>1. flight[k] \in Observation
    BY <1>2 DEF ApplyKept, TypeOK
  <2>2. count' \in 0..Misses /\ since' \in Age
    BY <1>2, <2>1, ProofStepTyped DEF ApplyKept, Observation
  <2>3. ProbeStep(flight[k].probe, flight[k].forced).count \in 0..Scheduled
    BY <2>1, ProbeStepTyped DEF Observation
  <2>4. /\ state' \in State /\ probes' \in 0..Scheduled /\ bad' \in 0..Scheduled
    BY <1>2, <2>1, <2>3 DEF ApplyKept, TypeOK, State, Least
  <2>. QED BY <1>2, <2>2, <2>4, LandedTyped DEF ApplyKept, TypeOK
<1>3. ASSUME NEW k \in Checker, ApplyLapsed(k) PROVE TypeOK'
  <2>1. since' \in Age /\ state' \in State /\ count' \in 0..Misses
    BY <1>3 DEF ApplyLapsed, TypeOK, Age, Never, State
  <2>. QED BY <1>3, <2>1, LandedTyped DEF ApplyLapsed, TypeOK
<1>4. ASSUME NEW k \in Checker, ApplyDropped(k) PROVE TypeOK'
  <2>1. ASSUME NEW j \in Checker, flight[j] # NoCheck
        PROVE  [flight[j] EXCEPT !.earlier = @ \ {k}] \in Observation
    BY <2>1 DEF TypeOK, Observation
  <2>2. flight' \in [Checker -> Observation \cup {NoCheck}]
    BY <1>4, <2>1 DEF ApplyDropped
  <2>. QED BY <1>4, <2>2 DEF ApplyDropped, TypeOK
<1>5. ASSUME Remove PROVE TypeOK'
  BY <1>5 DEF Remove, TypeOK, State
<1>6. ASSUME Reconnect PROVE TypeOK'
  <2>1. ASSUME NEW j \in Checker, flight[j] # NoCheck
        PROVE  [flight[j] EXCEPT !.outdated = TRUE] \in Observation
    BY <2>1 DEF TypeOK, Observation
  <2>2. flight' \in [Checker -> Observation \cup {NoCheck}]
    BY <1>6, <2>1 DEF Reconnect
  <2>. QED BY <1>6, <2>2 DEF Reconnect, TypeOK, State, Age, Never
<1>7. ASSUME Tick PROVE TypeOK'
  BY <1>7, OlderIsAge DEF Tick, TypeOK
<1>8. ASSUME RecordChanges PROVE TypeOK'
  BY <1>8 DEF RecordChanges, TypeOK
<1>9. CASE UNCHANGED vars
  BY <1>9 DEF vars, TypeOK
<1>. QED BY <1>1, <1>2, <1>3, <1>4, <1>5, <1>6, <1>7, <1>8, <1>9 DEF Next

(* The counters stay within their caps whatever the checks see and in      *)
(* whatever order they land.                                               *)
THEOREM Typing == Spec => []TypeOK
<1>1. Init => TypeOK
  BY DEF Init, TypeOK, State, Age, Never
<1>. QED BY <1>1, StepKeepsType, PTL DEF Spec

-------------------------------------------------------------------------------
(* The steps, case by case *)

LEMMA NoCheckIsNone == NoCheck \notin Observation
BY DEF NoCheck, Observation, Proof

(* ApplyKept's ways: the proof is lost, the row goes live, a live row is   *)
(* probed, or the counters of the probe stay as they are.                  *)
LEMMA KeptCases ==
  ASSUME TypeOK, NEW k \in Checker, ApplyKept(k)
  PROVE  \/ /\ ProofStep(flight[k].proof).lost
            /\ state' = "lapsed" /\ probes' = probes /\ bad' = bad
         \/ /\ state' # "lapsed" /\ probes' = probes /\ bad' = bad
            /\ state = "live" => state' = "live"
         \/ /\ state = "attached" /\ state' = "live"
            /\ probes' = 0 /\ bad' = 0
         \/ /\ state = "live"
            /\ LET ob == flight[k]  probe == ProbeStep(ob.probe, ob.forced) IN
                 /\ state' = IF probe.lost THEN "attached" ELSE "live"
                 /\ probes' = IF probe.lost THEN 0 ELSE probe.count
                 /\ bad' = CASE ob.probe = "negative" -> Least(bad + 1, Scheduled)
                             [] ob.probe = "ack" -> 0
                             [] OTHER -> bad
<1>. DEFINE ob == flight[k]
            proof == ProofStep(ob.proof)
            probe == ProbeStep(ob.probe, ob.forced)
            present == ob.proof = "present"
            probed == /\ state' = IF probe.lost THEN "attached" ELSE "live"
                      /\ probes' = IF probe.lost THEN 0 ELSE probe.count
                      /\ bad' = CASE ob.probe = "negative" -> Least(bad + 1, Scheduled)
                                  [] ob.probe = "ack" -> 0
                                  [] OTHER -> bad
<1>0. state \in Kept
  BY DEF ApplyKept
<1>1. (CASE proof.lost -> state' = "lapsed" /\ UNCHANGED <<probes, bad>>
         [] present /\ state = "verified" -> state' = "attached" /\ UNCHANGED <<probes, bad>>
         [] present /\ state = "attached" /\ ob.probe = "ack" ->
              state' = "live" /\ probes' = 0 /\ bad' = 0
         [] present /\ state = "live" -> probed
         [] OTHER -> UNCHANGED <<state, probes, bad>>)
  BY DEF ApplyKept
<1>2. present => ~proof.lost
  BY DEF ProofStep
<1>. HIDE DEF proof, probed, present
<1>3. CASE proof.lost
  <2>1. state' = "lapsed" /\ probes' = probes /\ bad' = bad
    BY <1>1, <1>2, <1>3
  <2>. QED BY <1>3, <2>1 DEF proof
<1>4. CASE ~proof.lost /\ present /\ state = "verified"
  BY <1>1, <1>4
<1>5. CASE ~proof.lost /\ present /\ state = "attached" /\ ob.probe = "ack"
  BY <1>1, <1>5
<1>6. CASE ~proof.lost /\ present /\ state = "live"
  <2>1. probed
    BY <1>1, <1>6
  <2>. QED BY <1>6, <2>1 DEF probed
<1>7. CASE /\ ~proof.lost
           /\ ~present \/ (state = "attached" /\ ob.probe # "ack")
  BY <1>0, <1>1, <1>7 DEF Kept
<1>. QED BY <1>0, <1>3, <1>4, <1>5, <1>6, <1>7 DEF Kept

(* A row lapses by ApplyKept only.                                         *)
LEMMA LapseStep ==
  ASSUME TypeOK, [Next]_vars, state # "lapsed", state' = "lapsed"
  PROVE  \E k \in Checker : ApplyKept(k)
BY DEF Next, vars, Observe, ApplyLapsed, ApplyDropped, Remove, Reconnect, Tick, RecordChanges

-------------------------------------------------------------------------------
(* Probes *)

ProbeInv == probes <= bad

LEMMA StepKeepsProbeInv ==
  ASSUME TypeOK, ProbeInv, [Next]_vars
  PROVE  ProbeInv'
<1>1. ASSUME NEW k \in Checker, ApplyKept(k) PROVE ProbeInv'
  <2>0. flight[k].probe \in Probe /\ flight[k].forced \in BOOLEAN
    BY <1>1 DEF ApplyKept, TypeOK, Observation
  <2>1. CASE probes' = probes /\ bad' = bad
    BY <2>1 DEF ProbeInv
  <2>2. CASE probes' = 0 /\ bad' = 0
    BY <2>2 DEF ProbeInv
  <2>. DEFINE ob == flight[k]
              probe == ProbeStep(ob.probe, ob.forced)
  <2>3. CASE /\ probes' = IF probe.lost THEN 0 ELSE probe.count
             /\ bad' = CASE ob.probe = "negative" -> Least(bad + 1, Scheduled)
                         [] ob.probe = "ack" -> 0
                         [] OTHER -> bad
    <3>1. bad' \in Nat
      BY <2>3 DEF TypeOK, Least
    <3>2. CASE probe.lost
      BY <2>3, <3>1, <3>2 DEF ProbeInv
    <3>3. CASE ~probe.lost /\ ob.probe = "negative"
      <4>1. probe.count = Least(probes + 1, Scheduled)
        BY <3>3 DEF ProbeStep
      <4>2. bad' = Least(bad + 1, Scheduled)
        BY <2>3, <3>3
      <4>. QED BY <2>3, <3>3, <4>1, <4>2, LeastKeepsOrder DEF ProbeInv, TypeOK
    <3>4. CASE ~probe.lost /\ ob.probe = "ack"
      <4>1. probe.count = 0
        BY <3>4 DEF ProbeStep
      <4>. QED BY <2>3, <3>1, <3>4, <4>1 DEF ProbeInv
    <3>5. CASE ~probe.lost /\ ob.probe = "unknown"
      <4>1. probe.count = probes
        BY <3>5 DEF ProbeStep
      <4>2. bad' = bad
        BY <2>3, <3>5
      <4>. QED BY <2>3, <3>5, <4>1, <4>2 DEF ProbeInv
    <3>. HIDE DEF probe
    <3>. QED BY <2>0, <3>2, <3>3, <3>4, <3>5 DEF Probe
  <2>. HIDE DEF probe
  <2>. QED BY <1>1, <2>1, <2>2, <2>3, KeptCases DEF probe
<1>2. CASE UNCHANGED <<probes, bad>> \/ Reconnect
  BY <1>2 DEF Reconnect, ProbeInv
<1>. QED BY <1>1, <1>2 DEF Next, vars, Observe, ApplyLapsed, ApplyDropped, Remove, Tick, RecordChanges

(* Whatever checks overlap, a live host is taken out of service by its     *)
(* probe only on a person's negative or the scheduled number of them.      *)
THEOREM LiveLostNeedsProbesHolds == Spec => LiveLostNeedsProbes
<1>. DEFINE Justified(k) ==
       state = "live" /\ state' = "attached" /\ flight[k] # NoCheck /\ flight'[k] = NoCheck
         => flight[k].probe = "negative" /\ (flight[k].forced \/ bad' >= Scheduled)
<1>1. ASSUME TypeOK, ProbeInv, [Next]_vars, NEW k \in Checker PROVE Justified(k)
  <2>. SUFFICES ASSUME state = "live", state' = "attached", flight[k] # NoCheck, flight'[k] = NoCheck
                PROVE  flight[k].probe = "negative" /\ (flight[k].forced \/ bad' >= Scheduled)
    OBVIOUS
  <2>1. PICK j \in Checker : ApplyKept(j)
    BY <1>1 DEF Next, vars, Observe, ApplyLapsed, ApplyDropped, Remove, Reconnect, Tick, RecordChanges
  <2>2. j = k
    <3>. SUFFICES ASSUME j # k PROVE FALSE
      OBVIOUS
    <3>1. flight'[k] = [flight[k] EXCEPT
            !.outdated = @ \/ (flight[j].proof = "present" /\ k \in flight[j].earlier),
            !.earlier = @ \ {j}]
      BY <2>1 DEF ApplyKept, Landed
    <3>2. flight[k] \in Observation
      BY <1>1 DEF TypeOK
    <3>3. flight'[k].proof \in Proof
      BY <3>1, <3>2 DEF Observation
    <3>. QED BY <3>3 DEF NoCheck, Proof
  <2>. DEFINE ob == flight[k]
              probe == ProbeStep(ob.probe, ob.forced)
  <2>3. ob.probe \in Probe /\ ob.forced \in BOOLEAN
    BY <1>1 DEF TypeOK, Observation
  <2>4. /\ probe.lost
        /\ bad' = CASE ob.probe = "negative" -> Least(bad + 1, Scheduled)
                    [] ob.probe = "ack" -> 0
                    [] OTHER -> bad
    <3>. HIDE DEF probe
    <3>. QED BY <1>1, <2>1, <2>2, KeptCases DEF probe
  <2>5. ob.probe = "negative"
    BY <2>3, <2>4 DEF ProbeStep, Probe
  <2>6. Least(probes + 1, Scheduled) >= (IF ob.forced THEN 1 ELSE Scheduled)
    BY <2>4, <2>5 DEF ProbeStep
  <2>7. bad' = Least(bad + 1, Scheduled)
    BY <2>4, <2>5
  <2>8. Least(probes + 1, Scheduled) <= Least(bad + 1, Scheduled)
    BY <1>1, LeastKeepsOrder DEF ProbeInv, TypeOK
  <2>9. /\ Least(probes + 1, Scheduled) \in Nat
        /\ Least(bad + 1, Scheduled) \in Nat
    BY <1>1 DEF TypeOK, Least
  <2>. QED BY <2>3, <2>5, <2>6, <2>7, <2>8, <2>9
<1>2. TypeOK /\ ProbeInv /\ [Next]_vars => [\A k \in Checker : Justified(k)]_vars
  BY <1>1
<1>3. Init => ProbeInv
  BY DEF Init, ProbeInv
<1>4. Spec => []ProbeInv
  BY <1>3, Typing, StepKeepsProbeInv, PTL DEF Spec
<1>. QED BY <1>2, <1>4, Typing, PTL DEF Spec, LiveLostNeedsProbes

-------------------------------------------------------------------------------
(* Misses and span, when checks of the row do not overlap *)

(* What the proof streak and the history make of one applied observation   *)
(* that no proof has outdated.                                             *)
LEMMA MissesTogether ==
  ASSUME TypeOK, NEW k \in Checker, flight[k] \in Observation, Landed(k),
         ~flight[k].outdated, count <= streak,
         count' = ProofStep(flight[k].proof).count
  PROVE  count' <= streak'
<1>1. CASE flight[k].proof = "present"
  BY <1>1, LandedHistory DEF ProofStep
<1>2. CASE flight[k].proof = "unknown"
  BY <1>2, LandedHistory DEF ProofStep
<1>3. CASE flight[k].proof = "absent"
  <2>1. count' = Least(count + 1, Misses)
    BY <1>3 DEF ProofStep
  <2>2. streak' = Least(streak + 1, Misses)
    BY <1>3, LandedHistory
  <2>. QED BY <2>1, <2>2, LeastKeepsOrder DEF TypeOK
<1>. QED BY <1>1, <1>2, <1>3 DEF Observation, Proof

(* With one checker, only a reconnect can outdate what it is about to      *)
(* apply, and then the row is verified and the observation of an earlier   *)
(* state, which is dropped.                                                *)
MissInv(c) ==
  /\ count <= streak
  /\ flight[c] # NoCheck /\ flight[c].outdated => state = "verified" /\ flight[c].seen # "verified"
  /\ flight[c] # NoCheck /\ flight[c].seen = "verified" => state = "verified"

LEMMA StepKeepsMissInv ==
  ASSUME NEW c, Checker = {c}, TypeOK, MissInv(c), [Next]_vars
  PROVE  MissInv(c)'
<1>. c \in Checker
  OBVIOUS
<1>1. ASSUME NEW k \in Checker, Observe(k) PROVE MissInv(c)'
  <2>1. PICK proof \in {"unknown", IF txt THEN "present" ELSE "absent"},
             probe \in Probe, forced \in BOOLEAN :
          flight' = [flight EXCEPT ![k] =
            [proof |-> proof, probe |-> probe, forced |-> forced, seen |-> state,
             earlier |-> {j \in Checker : flight[j] # NoCheck}, outdated |-> FALSE]]
    BY <1>1 DEF Observe
  <2>2. flight'[c].outdated = FALSE /\ flight'[c].seen = state
    BY <2>1 DEF TypeOK
  <2>. QED BY <1>1, <2>2 DEF Observe, MissInv
<1>2. ASSUME NEW k \in Checker, ApplyKept(k) PROVE MissInv(c)'
  <2>0. flight[k] \in Observation /\ k = c
    BY <1>2 DEF ApplyKept, TypeOK
  <2>1. ~flight[k].outdated
    BY <1>2, <2>0 DEF ApplyKept, MissInv
  <2>2. count' <= streak'
    BY <1>2, <2>0, <2>1, MissesTogether DEF ApplyKept, MissInv
  <2>3. flight'[c] = NoCheck
    BY <1>2, <2>0 DEF ApplyKept, Landed
  <2>. QED BY <2>2, <2>3 DEF MissInv
<1>3. ASSUME NEW k \in Checker, ApplyLapsed(k) PROVE MissInv(c)'
  <2>0. flight[k] \in Observation /\ k = c
    BY <1>3 DEF ApplyLapsed, TypeOK
  <2>1. ~flight[k].outdated
    BY <1>3, <2>0 DEF ApplyLapsed, MissInv
  <2>2. CASE flight[k].proof = "present"
    <3>1. count' = 0 /\ streak' = 0
      BY <1>3, <2>0, <2>2, LandedHistory DEF ApplyLapsed
    <3>. QED BY <1>3, <2>0, <3>1 DEF ApplyLapsed, Landed, MissInv
  <2>3. CASE flight[k].proof # "present"
    <3>1. count' = count
      BY <1>3, <2>3 DEF ApplyLapsed
    <3>2. streak' = streak \/ streak' = Least(streak + 1, Misses)
      BY <1>3, <2>0, <2>1, <2>3, LandedHistory DEF ApplyLapsed, Observation, Proof
    <3>3. streak' >= streak
      BY <3>2 DEF TypeOK, Least
    <3>4. count' <= streak'
      BY <3>1, <3>2, <3>3 DEF TypeOK, MissInv, Least
    <3>. QED BY <1>3, <2>0, <3>4 DEF ApplyLapsed, Landed, MissInv
  <2>. QED BY <2>2, <2>3
<1>4. ASSUME NEW k \in Checker, ApplyDropped(k) PROVE MissInv(c)'
  BY <1>4 DEF ApplyDropped, MissInv
<1>5. ASSUME Remove PROVE MissInv(c)'
  BY <1>5 DEF Remove, MissInv
<1>6. ASSUME Reconnect PROVE MissInv(c)'
  <2>1. flight[c] # NoCheck => flight[c].seen # "verified"
    BY <1>6 DEF Reconnect, MissInv
  <2>2. flight'[c] = IF flight[c] = NoCheck THEN NoCheck ELSE [flight[c] EXCEPT !.outdated = TRUE]
    BY <1>6 DEF Reconnect
  <2>3. flight[c] # NoCheck => flight[c] \in Observation
    BY DEF TypeOK
  <2>4. flight[c] # NoCheck => flight'[c].seen = flight[c].seen
    BY <2>2, <2>3 DEF Observation
  <2>. QED BY <1>6, <2>1, <2>2, <2>4 DEF Reconnect, MissInv
<1>7. CASE UNCHANGED <<state, count, streak, flight>>
  BY <1>7 DEF MissInv
<1>. QED BY <1>1, <1>2, <1>3, <1>4, <1>5, <1>6, <1>7 DEF Next, vars, Tick, RecordChanges

(* When checks of a row do not overlap, a lapse rests on proofLostMisses   *)
(* consecutive definitive misses, through any removals and reconnections.  *)
THEOREM LapseNeedsMissesOneAtATime ==
  ASSUME NEW c, Checker = {c}
  PROVE  Spec => LapseNeedsMisses
<1>1. ASSUME TypeOK, MissInv(c), [Next]_vars, state # "lapsed", state' = "lapsed"
      PROVE  streak' >= Misses
  <2>1. PICK k \in Checker : ApplyKept(k)
    BY <1>1, LapseStep
  <2>0. flight[k] \in Observation /\ k = c
    BY <1>1, <2>1 DEF ApplyKept, TypeOK
  <2>2. ProofStep(flight[k].proof).lost
    BY <1>1, <2>1, KeptCases
  <2>3. flight[k].proof = "absent"
    BY <2>0, <2>2 DEF ProofStep, Observation, Proof
  <2>4. Least(count + 1, Misses) >= Misses
    BY <2>2, <2>3 DEF ProofStep
  <2>5. ~flight[k].outdated
    BY <1>1, <2>0, <2>1 DEF ApplyKept, MissInv
  <2>6. streak' = Least(streak + 1, Misses)
    BY <2>0, <2>1, <2>3, <2>5, LandedHistory DEF ApplyKept
  <2>. QED BY <1>1, <2>4, <2>6 DEF MissInv, TypeOK, Least
<1>2. TypeOK /\ MissInv(c) /\ [Next]_vars =>
        [state # "lapsed" /\ state' = "lapsed" => streak' >= Misses]_vars
  BY <1>1
<1>3. Init => MissInv(c)
  BY DEF Init, MissInv
<1>4. TypeOK /\ MissInv(c) /\ [Next]_vars => MissInv(c)'
  BY StepKeepsMissInv
<1>. QED BY <1>2, <1>3, <1>4, Typing, PTL DEF Spec, LapseNeedsMisses

(* proofMissSince is never older than the first of the consecutive misses. *)
SpanInv(c) ==
  /\ since # Never => first # Never /\ since <= first
  /\ flight[c] # NoCheck => ~flight[c].outdated

LEMMA OlderKeepsOrder ==
  ASSUME NEW a \in 0..Span, NEW b \in 0..Span, a <= b
  PROVE  Older(a) <= Older(b)
BY DEF Older, Least, Never

LEMMA StepKeepsSpanInv ==
  ASSUME NEW c, Checker = {c}, ~Removable, TypeOK, SpanInv(c), [Next]_vars
  PROVE  SpanInv(c)'
<1>. c \in Checker
  OBVIOUS
<1>1. ASSUME NEW k \in Checker, Observe(k) PROVE SpanInv(c)'
  <2>1. flight'[c].outdated = FALSE
    BY <1>1 DEF Observe, TypeOK
  <2>. QED BY <1>1, <2>1 DEF Observe, SpanInv
<1>2. ASSUME NEW k \in Checker, ApplyKept(k) PROVE SpanInv(c)'
  <2>0. flight[k] \in Observation /\ k = c /\ ~flight[k].outdated
    BY <1>2 DEF ApplyKept, TypeOK, SpanInv
  <2>1. since' = ProofStep(flight[k].proof).since /\ Landed(k)
    BY <1>2 DEF ApplyKept
  <2>2. since' # Never => first' # Never /\ since' <= first'
    <3>1. CASE flight[k].proof = "present"
      BY <2>1, <3>1 DEF ProofStep
    <3>2. CASE flight[k].proof = "unknown"
      BY <2>0, <2>1, <3>2, LandedHistory DEF ProofStep, SpanInv
    <3>3. CASE flight[k].proof = "absent"
      <4>1. since' = IF since = Never THEN 0 ELSE since
        BY <2>1, <3>3 DEF ProofStep
      <4>2. first' = IF first = Never THEN 0 ELSE first
        BY <2>0, <2>1, <3>3, LandedHistory
      <4>. QED BY <4>1, <4>2 DEF SpanInv, TypeOK, Age, Never
    <3>. QED BY <2>0, <3>1, <3>2, <3>3 DEF Observation, Proof
  <2>3. flight'[c] = NoCheck
    BY <2>0, <2>1 DEF Landed
  <2>. QED BY <2>2, <2>3 DEF SpanInv
<1>3. ASSUME NEW k \in Checker, ApplyLapsed(k) PROVE SpanInv(c)'
  BY <1>3 DEF ApplyLapsed, Landed, SpanInv
<1>4. ASSUME NEW k \in Checker, ApplyDropped(k) PROVE SpanInv(c)'
  BY <1>4 DEF ApplyDropped, SpanInv
<1>5. ASSUME Tick PROVE SpanInv(c)'
  <2>1. since' # Never <=> since # Never
    BY <1>5, OlderIsAge DEF Tick, TypeOK
  <2>2. first' # Never <=> first # Never
    BY <1>5, OlderIsAge DEF Tick, TypeOK
  <2>3. since # Never => since' <= first'
    <3>. SUFFICES ASSUME since # Never PROVE since' <= first'
      OBVIOUS
    <3>1. since \in 0..Span /\ first \in 0..Span /\ since <= first
      BY DEF SpanInv, TypeOK, Age
    <3>. QED BY <1>5, <3>1, OlderKeepsOrder DEF Tick
  <2>. QED BY <1>5, <2>1, <2>2, <2>3 DEF Tick, SpanInv
<1>6. CASE UNCHANGED <<since, first, flight>>
  BY <1>6 DEF SpanInv
<1>. QED BY <1>1, <1>2, <1>3, <1>4, <1>5, <1>6 DEF Next, vars, Remove, Reconnect, RecordChanges

(* When checks of a row do not overlap and its claim is not removed and    *)
(* reconnected, the first of the misses a lapse rests on is at least       *)
(* proofLostMinSpanMs old: no burst of checks darkens a site.              *)
THEOREM LapseNeedsSpanOneAtATime ==
  ASSUME NEW c, Checker = {c}, ~Removable
  PROVE  Spec => LapseNeedsSpan
<1>1. ASSUME TypeOK, SpanInv(c), [Next]_vars, state # "lapsed", state' = "lapsed"
      PROVE  first' # Never /\ first' >= Span
  <2>1. PICK k \in Checker : ApplyKept(k)
    BY <1>1, LapseStep
  <2>0. flight[k] \in Observation /\ k = c /\ ~flight[k].outdated
    BY <1>1, <2>1 DEF ApplyKept, TypeOK, SpanInv
  <2>2. ProofStep(flight[k].proof).lost
    BY <1>1, <2>1, KeptCases
  <2>3. flight[k].proof = "absent"
    BY <2>0, <2>2 DEF ProofStep, Observation, Proof
  <2>4. (IF since = Never THEN 0 ELSE since) >= Span
    BY <2>2, <2>3 DEF ProofStep
  <2>5. first' = IF first = Never THEN 0 ELSE first
    BY <2>0, <2>1, <2>3, LandedHistory DEF ApplyKept
  <2>. QED BY <1>1, <2>4, <2>5 DEF SpanInv, TypeOK, Age, Never
<1>2. TypeOK /\ SpanInv(c) /\ [Next]_vars =>
        [state # "lapsed" /\ state' = "lapsed" => first' # Never /\ first' >= Span]_vars
  BY <1>1
<1>3. Init => SpanInv(c)
  BY DEF Init, SpanInv
<1>4. TypeOK /\ SpanInv(c) /\ [Next]_vars => SpanInv(c)'
  BY StepKeepsSpanInv
<1>. QED BY <1>2, <1>3, <1>4, Typing, PTL DEF Spec, LapseNeedsSpan

===============================================================================

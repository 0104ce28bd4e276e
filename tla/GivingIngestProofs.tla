--------------------------- MODULE GivingIngestProofs ---------------------------
(***************************************************************************)
(* Proofs about the giving inbox and its ledger, for every set of          *)
(* payments, reversals, events and stories, and any number of attempts.    *)
(*                                                                         *)
(* First the functions are shown to make only steps the tables' triggers   *)
(* accept.  From that the ledger only grows (Grown), so what an event that *)
(* was applied has written (Effect) is still there when the last one ends; *)
(* and whatever the ledger holds was told by an event that took place      *)
(* (LedgerTold).  The two together are Converged.                          *)
(***************************************************************************)
EXTENDS GivingIngest, TLAPS

-------------------------------------------------------------------------------
(* Sums of one reversal, or of none.                                       *)

LEMMA TotalEmpty == Total({}) = 0
BY DEF Total, MapThenSumSet, MapThenFoldSet

LEMMA TotalOne == ASSUME NEW k, Reversal[k].amount \in Nat
                  PROVE  Total({k}) = Reversal[k].amount
<1>. DEFINE Sum(s, iter) == IF s = {} THEN 0
                            ELSE Reversal[CHOOSE x \in s : TRUE].amount + iter[s \ {CHOOSE x \in s : TRUE}]
            Sums(iter) == iter = [s \in SUBSET {k} |-> Sum(s, iter)]
            it == [s \in SUBSET {k} |-> IF s = {} THEN 0 ELSE Reversal[k].amount]
            sum == CHOOSE iter : Sums(iter)
<1>1. (CHOOSE x \in {k} : TRUE) = k
  OBVIOUS
<1>2. SUBSET {k} = {{}, {k}} /\ {k} \ {k} = {} /\ {k} # {}
  OBVIOUS
<1>3. Sums(it)
  <2>1. \A s \in SUBSET {k} : it[s] = Sum(s, it)
    BY <1>1, <1>2
  <2>. QED BY <2>1
<1>4. Sums(sum)
  <2>. HIDE DEF Sums, it
  <2>. QED BY <1>3
<1>5. \A s \in SUBSET {k} : sum[s] = Sum(s, sum)
  <2>. HIDE DEF sum, Sum
  <2>. QED BY <1>4
<1>6. sum[{k}] = Reversal[k].amount
  <2>1. sum[{}] = Sum({}, sum) /\ sum[{k}] = Sum({k}, sum)
    <3>. HIDE DEF sum, Sum
    <3>. QED BY <1>5, <1>2
  <2>2. Sum({}, sum) = 0 /\ Sum({k}, sum) = Reversal[k].amount + sum[{}]
    <3>. HIDE DEF sum
    <3>. QED BY <1>1, <1>2
  <2>. HIDE DEF sum, Sum
  <2>. QED BY <2>1, <2>2
<1>7. Total({k}) = sum[{k}]
  BY DEF Total, MapThenSumSet, MapThenFoldSet
<1>. QED BY <1>6, <1>7

-------------------------------------------------------------------------------
(* The first void of a gift is within its bound.                           *)

(* At the desk nothing is taken back but by a void.                        *)
DeskVoids == \A k \in taken : Reversal[k].pay \in Offline => Reversal[k].kind = "void"

LEMMA VoidBound ==
  ASSUME TypeOK, DeskVoids, NEW k \in Key, VoidGift(k)
  PROVE  Bound(k, taken)
<1>. DEFINE p == Reversal[k].pay
            with == taken \cup {k}
<1>1. /\ Reversal[k].kind = "void" /\ p \in Offline /\ k \notin taken /\ taken \subseteq Key
      /\ p \in Payment /\ Reversal[k].amount \in Nat \ {0}
  BY ReversalAssumption DEF VoidGift, TypeOK
<1>2. Reversal[k].amount = Price[p] /\ Price[p] \in Nat
  BY <1>1, VoidAssumption, PriceAssumption
<1>3. \A l \in taken : Reversal[l].pay # p
  BY <1>1, VoidAssumption DEF DeskVoids
<1>4. Of(p, with) = {k}
  BY <1>3 DEF Of
<1>5. ~IsReinstatement(k)
  BY <1>1 DEF IsReinstatement
<1>6. {l \in {k} : IsReinstatement(l)} = {} /\ {k} \ {} = {k}
  BY <1>5
<1>7. Total({k}) = Price[p] /\ Total({}) = 0
  BY <1>1, <1>2, TotalOne, TotalEmpty
<1>8. Net(p, with) = Price[p]
  <2>1. Net(p, with) = Total({k}) - Total({})
    <3>. HIDE DEF with
    <3>. QED BY <1>4, <1>6 DEF Net
  <2>. QED BY <2>1, <1>7, <1>2
<1>. QED BY <1>1, <1>2, <1>5, <1>8 DEF Bound

-------------------------------------------------------------------------------
(* Types *)

LEMMA Parts ==
  ASSUME NEW e \in Event
  PROVE  /\ Part[e].kind = "gift" => /\ Part[e].pay \in Payment \ Offline
                                     /\ Part[e].status \in Status \ {"none"}
                                     /\ IntentOf[Part[e].pay] \in Intent
         /\ Part[e].kind = "fee" => Part[e].pay \in Payment \ Offline
         /\ Part[e].kind = "reversal" => /\ Part[e].key \in Key
                                         /\ Reversal[Part[e].key].pay \in Payment \ Offline
         /\ Part[e].kind \in {"started", "ended", "expired"} => Part[e].intent \in Intent
BY PartAssumption, IntentAssumption, ReversalAssumption

Outcome == {"none", "applied", "ignored", "parked", "failed", "dead"}
IntentRow == [status: {"open", "completed", "expired"}, sub: BOOLEAN, ended: BOOLEAN]

LEMMA ReturnsTyped ==
  ASSUME TypeOK, NEW e \in Event, NEW outcome \in Outcome, NEW code \in Code, Returns(e, outcome, code)
  PROVE  /\ verdict' \in [Event -> [outcome: Outcome, code: Code]]
         /\ inbox' \in [Event -> Row]
         /\ story' \in Stories /\ happened' \subseteq story' \cap Event
<1>. [outcome |-> outcome, code |-> code] \in [outcome: Outcome, code: Code]
  OBVIOUS
<1>. QED BY DEF TypeOK, Returns, Outcome, provider

LEMMA IntentTyped ==
  ASSUME TypeOK, NEW i \in Intent, NEW row \in IntentRow, intent' = [intent EXCEPT ![i] = row]
  PROVE  intent' \in [Intent -> IntentRow]
BY DEF TypeOK, IntentRow

LEMMA CompletedTyped ==
  ASSUME TypeOK, NEW i \in Intent
  PROVE  Completed(i) \in [Intent -> IntentRow]
<1>1. intent[i] \in IntentRow
  BY DEF TypeOK, IntentRow
<1>2. [intent[i] EXCEPT !.status = IF @ = "open" THEN "completed" ELSE @] \in IntentRow
  BY <1>1 DEF IntentRow
<1>3. Completed(i) = [intent EXCEPT ![i] = [intent[i] EXCEPT !.status = IF @ = "open" THEN "completed" ELSE @]]
  BY DEF Completed
<1>. QED BY <1>2, <1>3 DEF TypeOK, IntentRow

LEMMA RowTyped ==
  ASSUME NEW row \in Row, NEW status \in {"received", "parked", "processing"}, NEW n \in 0..MaxAttempts
  PROVE  [row EXCEPT !.status = status, !.attempts = n] \in Row
BY DEF Row

LEMMA AttemptsTyped ==
  /\ 0 \in 0..MaxAttempts
  /\ \A row \in Row : /\ row.attempts \in 0..MaxAttempts
                      /\ Least(row.attempts + 1, MaxAttempts) \in 0..MaxAttempts
<1>1. MaxAttempts \in Nat
  BY AttemptAssumption
<1>2. \A n \in 0..MaxAttempts : Least(n + 1, MaxAttempts) \in 0..MaxAttempts
  BY <1>1 DEF Least
<1>3. \A row \in Row : row.attempts \in 0..MaxAttempts
  BY DEF Row
<1>. QED BY <1>1, <1>2, <1>3

(* The three variables of the ledger.                                      *)
LedgerTyped == gift \in [Payment -> Status] /\ fee \subseteq Payment /\ taken \subseteq Key

LEMMA LedgerStepTyped == LedgerTyped /\ [Next]_ledger => LedgerTyped'
BY DEF LedgerTyped, Next, InsertGift, SettleGift, SetFee, InsertReversal, ledger, Status

-------------------------------------------------------------------------------
(* What each step does to the ledger, and that the types are kept.         *)

LEMMA GiftAccepted ==
  ASSUME TypeOK, NEW e \in Event, NEW p \in Payment \ Offline, NEW status \in Status \ {"none"},
         GiftApplied(e, p, status)
  PROVE  [Next]_ledger
<1>1. CASE gift[p] = "none" /\ gift' = [gift EXCEPT ![p] = status] /\ UNCHANGED <<fee, taken>>
  BY <1>1 DEF Next, InsertGift
<1>2. CASE Unwritten
  BY <1>2 DEF Unwritten
<1>3. CASE /\ gift[p] = "pending" /\ status # "pending"
           /\ gift' = [gift EXCEPT ![p] = status] /\ UNCHANGED <<fee, taken>>
  BY <1>3 DEF Next, SettleGift, Status
<1>. QED BY <1>1, <1>2, <1>3 DEF GiftApplied

LEMMA ApplyAccepted ==
  ASSUME TypeOK, NEW e \in Event, Apply(e)
  PROVE  [Next]_ledger
<1>1. CASE ApplyGift(e)
  <2>1. CASE Unwritten
    BY <2>1 DEF Unwritten
  <2>2. CASE GiftApplied(e, Part[e].pay, Part[e].status)
    BY <1>1, <2>2, Parts, GiftAccepted DEF ApplyGift
  <2>. QED BY <1>1, <2>1, <2>2 DEF ApplyGift
<1>2. CASE ApplyGiftFee(e)
  BY <1>2, Parts DEF ApplyGiftFee, Unwritten, Next, SetFee, ledger
<1>3. CASE ApplyReversal(e)
  <2>. DEFINE k == Part[e].key
  <2>1. k \in Key
    BY <1>3, Parts DEF ApplyReversal
  <2>2. \/ UNCHANGED ledger
        \/ InsertReversal(k)
    <3>. HIDE DEF k
    <3>1. ReversalApplied(e, k) => UNCHANGED ledger \/ InsertReversal(k)
      BY <2>1 DEF ReversalApplied, InsertReversal, Unwritten, ledger
    <3>. QED BY <3>1, <1>3 DEF ApplyReversal, k
  <2>. QED BY <2>1, <2>2 DEF Next
<1>4. CASE SubscriptionStarted(e) \/ SubscriptionEnded(e) \/ IntentExpired(e)
  BY <1>4 DEF SubscriptionStarted, SubscriptionEnded, IntentExpired, Unwritten
<1>. QED BY <1>1, <1>2, <1>3, <1>4 DEF Apply

LEMMA StepAccepted == TypeOK /\ DeskVoids /\ [Step]_vars => [Next]_ledger
<1>. SUFFICES ASSUME TypeOK, DeskVoids, [Step]_vars PROVE [Next]_ledger
  OBVIOUS
<1>1. CASE UNCHANGED vars
  BY <1>1 DEF vars, ledger
<1>2. ASSUME NEW e \in Event, Happens(e) \/ Ingest(e) \/ Claim(e) \/ Requeue(e)
      PROVE  UNCHANGED ledger
  BY <1>2 DEF Happens, Ingest, Claim, Requeue, ledger
<1>3. ASSUME NEW e \in Event, Work(e) PROVE [Next]_ledger
  <2>1. CASE Apply(e)
    BY <2>1, ApplyAccepted
  <2>2. CASE Break(e)
    BY <2>2 DEF Break, Unwritten
  <2>3. CASE \E old \in BOOLEAN : Finish(e, old)
    BY <2>3 DEF Finish
  <2>. QED BY <1>3, <2>1, <2>2, <2>3 DEF Work
<1>4. ASSUME NEW i \in Intent, ExpireIntent(i) PROVE UNCHANGED ledger
  BY <1>4 DEF ExpireIntent
<1>5. ASSUME NEW p \in Payment, RecordOfflineGift(p) PROVE Next
  <2>1. InsertGift(p, "succeeded")
    BY <1>5 DEF RecordOfflineGift, InsertGift, Status
  <2>. QED BY <2>1 DEF Next, Status
<1>6. ASSUME NEW k \in Key, VoidGift(k) PROVE Next
  <2>1. Bound(k, taken)
    BY <1>6, VoidBound
  <2>2. InsertReversal(k)
    BY <1>6, <2>1 DEF VoidGift, InsertReversal
  <2>. QED BY <2>2 DEF Next
<1>. QED BY <1>1, <1>2, <1>3, <1>4, <1>5, <1>6 DEF Step

LEMMA StepVoids == TypeOK /\ DeskVoids /\ [Step]_vars => DeskVoids'
<1>. SUFFICES ASSUME TypeOK, DeskVoids, [Step]_vars PROVE DeskVoids'
  OBVIOUS
<1>1. ASSUME NEW k, taken' = taken \cup {k}, Reversal[k].pay \in Offline => Reversal[k].kind = "void"
      PROVE  DeskVoids'
  BY <1>1 DEF DeskVoids
<1>2. ASSUME taken' = taken PROVE DeskVoids'
  BY <1>2 DEF DeskVoids
<1>3. CASE UNCHANGED vars
  BY <1>2, <1>3 DEF vars
<1>4. ASSUME NEW e \in Event, Work(e) PROVE DeskVoids'
  <2>1. CASE ApplyReversal(e)
    <3>. DEFINE k == Part[e].key
    <3>1. Reversal[k].pay \notin Offline
      BY <2>1, Parts DEF ApplyReversal
    <3>2. taken' = taken \/ taken' = taken \cup {k}
      BY <2>1 DEF ApplyReversal, ReversalApplied, Unwritten, ledger
    <3>. QED BY <1>1, <1>2, <3>1, <3>2
  <2>2. CASE \/ ApplyGift(e) \/ ApplyGiftFee(e) \/ SubscriptionStarted(e) \/ SubscriptionEnded(e)
             \/ IntentExpired(e) \/ Break(e) \/ \E old \in BOOLEAN : Finish(e, old)
    BY <1>2, <2>2 DEF ApplyGift, GiftApplied, ApplyGiftFee, SubscriptionStarted, SubscriptionEnded,
       IntentExpired, Break, Finish, Unwritten, ledger
  <2>. QED BY <1>4, <2>1, <2>2 DEF Work, Apply
<1>5. ASSUME NEW k \in Key, VoidGift(k) PROVE DeskVoids'
  BY <1>1, <1>5 DEF VoidGift
<1>6. CASE \/ \E e \in Event : Happens(e) \/ Ingest(e) \/ Claim(e) \/ Requeue(e)
           \/ \E i \in Intent : ExpireIntent(i)
           \/ \E p \in Payment : RecordOfflineGift(p)
  BY <1>2, <1>6 DEF Happens, Ingest, Claim, Requeue, ExpireIntent, RecordOfflineGift, ledger
<1>. QED BY <1>3, <1>4, <1>5, <1>6 DEF Step

IntentTypes == intent \in [Intent -> IntentRow]
InboxTypes ==
  /\ inbox \in [Event -> Row]
  /\ verdict \in [Event -> [outcome: Outcome, code: Code]]
  /\ story \in Stories /\ happened \subseteq story \cap Event

LEMMA TypesSplit == TypeOK <=> LedgerTyped /\ IntentTypes /\ InboxTypes
BY DEF TypeOK, LedgerTyped, IntentTypes, InboxTypes, IntentRow, Outcome

LEMMA ApplyTyped ==
  ASSUME TypeOK, NEW e \in Event, Apply(e) \/ Break(e)
  PROVE  IntentTypes' /\ InboxTypes'
<1>1. \E outcome \in Outcome, code \in Code : Returns(e, outcome, code)
  <2>1. Break(e) => Returns(e, "failed", "")
    BY DEF Break
  <2>2. ApplyGift(e) => \/ Returns(e, "parked", "no_subscription") \/ Returns(e, "applied", "")
                        \/ Returns(e, "dead", "")
    BY DEF ApplyGift, GiftApplied
  <2>3. ApplyGiftFee(e) => Returns(e, "parked", "no_gift") \/ Returns(e, "applied", "")
    BY DEF ApplyGiftFee
  <2>4. ApplyReversal(e) =>
          \E outcome \in Outcome, code \in Code : Returns(e, outcome, code)
    BY DEF ApplyReversal, ReversalApplied, Outcome, Code
  <2>5. SubscriptionStarted(e) \/ SubscriptionEnded(e) \/ IntentExpired(e)
          => Returns(e, "parked", "no_subscription") \/ Returns(e, "applied", "")
    BY DEF SubscriptionStarted, SubscriptionEnded, IntentExpired
  <2>. QED BY <2>1, <2>2, <2>3, <2>4, <2>5 DEF Apply, Outcome, Code
<1>2. InboxTypes'
  BY <1>1, ReturnsTyped DEF InboxTypes
<1>3. IntentTypes
  BY TypesSplit
<1>4. ASSUME intent' = intent PROVE IntentTypes'
  BY <1>3, <1>4 DEF IntentTypes
<1>5. ASSUME Break(e) \/ ApplyGiftFee(e) \/ ApplyReversal(e) PROVE IntentTypes'
  <2>1. intent' = intent
    BY <1>5 DEF Break, ApplyGiftFee, ApplyReversal, ReversalApplied, Unwritten
  <2>. QED BY <1>4, <2>1
<1>6. ASSUME ApplyGift(e) PROVE IntentTypes'
  <2>1. IntentOf[Part[e].pay] \in Intent
    BY <1>6, Parts DEF ApplyGift
  <2>2. intent' = intent \/ intent' = Completed(IntentOf[Part[e].pay])
    BY <1>6 DEF ApplyGift, GiftApplied, Unwritten
  <2>3. CASE intent' = intent
    BY <1>4, <2>3
  <2>4. CASE intent' = Completed(IntentOf[Part[e].pay])
    BY <2>1, <2>4, CompletedTyped DEF IntentTypes
  <2>. QED BY <2>2, <2>3, <2>4
<1>7. ASSUME SubscriptionStarted(e) \/ SubscriptionEnded(e) \/ IntentExpired(e)
      PROVE  IntentTypes'
  <2>. DEFINE i == Part[e].intent
  <2>1. i \in Intent
    BY <1>7, Parts DEF SubscriptionStarted, SubscriptionEnded, IntentExpired
  <2>2. intent[i] \in IntentRow /\ Completed(i)[i] \in IntentRow
    BY <1>3, <2>1, CompletedTyped DEF IntentTypes
  <2>3. ASSUME SubscriptionStarted(e) PROVE IntentTypes'
    <3>. DEFINE row == IF intent[i].sub THEN intent[i] ELSE [Completed(i)[i] EXCEPT !.sub = TRUE]
    <3>1. row \in IntentRow
      <4>. DEFINE done == Completed(i)[i]
      <4>1. done \in IntentRow => [done EXCEPT !.sub = TRUE] \in IntentRow
        <5>. HIDE DEF done
        <5>. QED BY DEF IntentRow
      <4>. QED BY <2>2, <4>1
    <3>2. intent' = [intent EXCEPT ![i] = row]
      BY <2>3 DEF SubscriptionStarted
    <3>. HIDE DEF row, i
    <3>. QED BY <2>1, <3>1, <3>2, IntentTyped DEF IntentTypes
  <2>4. ASSUME SubscriptionEnded(e) PROVE IntentTypes'
    <3>0. CASE intent' = intent
      BY <1>4, <3>0
    <3>1. [intent[i] EXCEPT !.ended = TRUE] \in IntentRow
      BY <2>2 DEF IntentRow
    <3>2. CASE intent' = [intent EXCEPT ![i] = [intent[i] EXCEPT !.ended = TRUE]]
      BY <2>1, <3>1, <3>2, IntentTyped DEF IntentTypes
    <3>3. \/ intent' = intent
          \/ intent' = [intent EXCEPT ![i] = [intent[i] EXCEPT !.ended = TRUE]]
      BY <2>4 DEF SubscriptionEnded, Unwritten
    <3>. QED BY <3>0, <3>2, <3>3
  <2>5. ASSUME IntentExpired(e) PROVE IntentTypes'
    <3>. DEFINE row == [intent[i] EXCEPT !.status = IF @ = "open" THEN "expired" ELSE @]
    <3>1. row \in IntentRow
      BY <2>2 DEF IntentRow
    <3>2. intent' = [intent EXCEPT ![i] = row]
      BY <2>5 DEF IntentExpired
    <3>. HIDE DEF row, i
    <3>. QED BY <2>1, <3>1, <3>2, IntentTyped DEF IntentTypes
  <2>. QED BY <1>7, <2>3, <2>4, <2>5
<1>. QED BY <1>2, <1>5, <1>6, <1>7 DEF Apply

LEMMA StepTyped == TypeOK /\ DeskVoids /\ [Step]_vars => TypeOK'
<1>. SUFFICES ASSUME TypeOK, DeskVoids, [Step]_vars PROVE TypeOK'
  OBVIOUS
<1>1. LedgerTyped /\ IntentTypes /\ InboxTypes
  BY TypesSplit
<1>2. LedgerTyped'
  BY <1>1, StepAccepted, LedgerStepTyped
<1>3. (LedgerTyped' /\ IntentTypes' /\ InboxTypes') => TypeOK'
  BY DEF TypeOK, LedgerTyped, IntentTypes, InboxTypes, IntentRow, Outcome
<1>4. ASSUME UNCHANGED intent, UNCHANGED <<inbox, verdict, provider>> PROVE TypeOK'
  BY <1>1, <1>2, <1>3, <1>4 DEF IntentTypes, InboxTypes, provider
<1>5. ASSUME UNCHANGED intent, UNCHANGED provider, NEW e \in Event, NEW row \in Row,
             inbox' = [inbox EXCEPT ![e] = row],
             verdict' = verdict \/ verdict' = [verdict EXCEPT ![e] = NoVerdict]
      PROVE  TypeOK'
  <2>1. inbox' \in [Event -> Row]
    BY <1>1, <1>5 DEF InboxTypes
  <2>2. NoVerdict \in [outcome: Outcome, code: Code]
    BY DEF NoVerdict, Outcome, Code
  <2>3. verdict' \in [Event -> [outcome: Outcome, code: Code]]
    BY <1>1, <1>5, <2>2 DEF InboxTypes
  <2>4. IntentTypes' /\ InboxTypes'
    BY <1>1, <1>5, <2>1, <2>3 DEF IntentTypes, InboxTypes, provider
  <2>. QED BY <1>2, <1>3, <2>4
<1>6. \A e \in Event : inbox[e] \in Row
  BY <1>1 DEF InboxTypes
<1>7. CASE UNCHANGED vars
  BY <1>4, <1>7 DEF vars, provider
<1>8. ASSUME NEW e \in Event, Happens(e) PROVE TypeOK'
  <2>1. IntentTypes' /\ InboxTypes'
    BY <1>1, <1>8 DEF Happens, IntentTypes, InboxTypes
  <2>. QED BY <1>2, <1>3, <2>1
<1>9. ASSUME NEW e \in Event, Ingest(e) PROVE TypeOK'
  <2>1. [inbox[e] EXCEPT !.status = "received"] \in Row
    BY <1>6 DEF Row
  <2>. QED BY <1>5, <1>9, <2>1 DEF Ingest
<1>10. ASSUME NEW e \in Event, Claim(e) PROVE TypeOK'
  <2>1. [inbox[e] EXCEPT !.status = "processing", !.attempts = Least(@ + 1, MaxAttempts)] \in Row
    BY <1>6, RowTyped, AttemptsTyped
  <2>2. inbox' = [inbox EXCEPT ![e] =
          [inbox[e] EXCEPT !.status = "processing", !.attempts = Least(@ + 1, MaxAttempts)]]
    BY <1>1, <1>10 DEF Claim, InboxTypes
  <2>. QED BY <1>5, <1>10, <2>1, <2>2 DEF Claim
<1>11. ASSUME NEW e \in Event, Apply(e) \/ Break(e) PROVE TypeOK'
  BY <1>2, <1>3, <1>11, ApplyTyped
<1>12. ASSUME NEW e \in Event, NEW old \in BOOLEAN, Finish(e, old) PROVE TypeOK'
  <2>. DEFINE status == Finished(verdict[e], inbox[e].attempts, old)
              row == [status |-> status, code |-> IF status = "ignored" THEN verdict[e].code ELSE "",
                      attempts |-> IF status \in Terminal THEN 0 ELSE inbox[e].attempts]
  <2>1. status \in {"parked"} \cup Terminal
    BY DEF Finished, Terminal
  <2>2. verdict[e].code \in Code /\ "" \in Code /\ inbox[e].attempts \in 0..MaxAttempts /\ 0 \in 0..MaxAttempts
    <3>1. verdict[e] \in [outcome: Outcome, code: Code]
      BY <1>1 DEF InboxTypes
    <3>2. "" \in Code
      BY DEF Code
    <3>. QED BY <1>6, <3>1, <3>2, AttemptsTyped
  <2>3. row \in Row
    <3>. HIDE DEF status
    <3>. QED BY <2>1, <2>2 DEF Row
  <2>4. inbox' = [inbox EXCEPT ![e] = row]
    BY <1>12 DEF Finish
  <2>. HIDE DEF row
  <2>. QED BY <1>5, <1>12, <2>3, <2>4 DEF Finish
<1>13. ASSUME NEW e \in Event, Requeue(e) PROVE TypeOK'
  <2>1. [inbox[e] EXCEPT !.status = "received", !.attempts = 0] \in Row
    BY <1>6, RowTyped, AttemptsTyped
  <2>2. inbox' = [inbox EXCEPT ![e] = [inbox[e] EXCEPT !.status = "received", !.attempts = 0]]
    BY <1>1, <1>13 DEF Requeue, InboxTypes
  <2>. QED BY <1>5, <1>13, <2>1, <2>2 DEF Requeue
<1>14. ASSUME NEW i \in Intent, ExpireIntent(i) PROVE TypeOK'
  <2>1. intent[i] \in IntentRow
    BY <1>1 DEF IntentTypes
  <2>2. [intent[i] EXCEPT !.status = "expired"] \in IntentRow
    BY <2>1 DEF IntentRow
  <2>3. intent' = [intent EXCEPT ![i] = [intent[i] EXCEPT !.status = "expired"]]
    BY <1>14 DEF ExpireIntent
  <2>4. IntentTypes' /\ InboxTypes'
    BY <1>1, <1>14, <2>2, <2>3, IntentTyped DEF ExpireIntent, IntentTypes, InboxTypes, provider
  <2>. QED BY <1>2, <1>3, <2>4
<1>15. CASE \/ \E p \in Payment : RecordOfflineGift(p)
            \/ \E k \in Key : VoidGift(k)
  BY <1>4, <1>15 DEF RecordOfflineGift, VoidGift
<1>. QED BY <1>7, <1>8, <1>9, <1>10, <1>11, <1>12, <1>13, <1>14, <1>15 DEF Step, Work

LEMMA StartTyped == Start => TypeOK /\ DeskVoids
<1>. SUFFICES ASSUME Start PROVE TypeOK /\ DeskVoids
  OBVIOUS
<1>1. LedgerTyped /\ DeskVoids
  BY DEF Start, Init, LedgerTyped, DeskVoids, Status
<1>2. IntentTypes
  BY DEF Start, IntentTypes, IntentRow
<1>3. NoRow \in Row /\ NoVerdict \in [outcome: Outcome, code: Code]
  BY AttemptAssumption DEF NoRow, Row, NoVerdict, Outcome, Code
<1>4. InboxTypes
  BY <1>3 DEF Start, InboxTypes
<1>. QED BY <1>1, <1>2, <1>4, TypesSplit

(* Every variable has its type, and nothing but a void is taken back from  *)
(* a gift entered at the desk, whatever the events, the crashes and the    *)
(* admins' requeues.                                                       *)
THEOREM TypesKept == IngestSpec => [](TypeOK /\ DeskVoids)
<1>1. TypeOK /\ DeskVoids /\ [Step]_vars => (TypeOK /\ DeskVoids)'
  BY StepTyped, StepVoids
<1>. QED BY <1>1, StartTyped, PTL DEF IngestSpec

(* Typing of the inbox, the intents and the ledger.                        *)
THEOREM Typing == IngestSpec => []TypeOK
BY TypesKept, PTL

(* Refinement: whatever the functions write, the triggers of the tables    *)
(* accept: the frozen gift, the one fee, the bound of what is taken back,  *)
(* and a void among them.                                                  *)
THEOREM LedgerKeptHolds == IngestSpec => LedgerKept
<1>1. Start => Init
  BY DEF Start
<1>2. TypeOK /\ DeskVoids /\ [Step]_vars => [Next]_ledger
  BY StepAccepted
<1>. QED BY <1>1, <1>2, TypesKept, PTL DEF IngestSpec, LedgerKept, Spec

-------------------------------------------------------------------------------
(* The ledger only grows: what the triggers leave of its history.          *)

Grown ==
  /\ \A p \in Payment : \/ gift'[p] = gift[p] \/ gift[p] = "none"
                        \/ gift[p] = "pending" /\ gift'[p] \in {"succeeded", "failed"}
  /\ fee \subseteq fee' /\ taken \subseteq taken' /\ happened \subseteq happened'

LEMMA StepGrows == TypeOK /\ DeskVoids /\ [Step]_vars => Grown
<1>. SUFFICES ASSUME TypeOK, DeskVoids, [Step]_vars PROVE Grown
  OBVIOUS
<1>1. [Next]_ledger /\ gift \in [Payment -> Status]
  BY StepAccepted DEF TypeOK
<1>2. /\ fee \subseteq fee' /\ taken \subseteq taken'
      /\ \A p \in Payment : \/ gift'[p] = gift[p] \/ gift[p] = "none"
                            \/ gift[p] = "pending" /\ gift'[p] \in {"succeeded", "failed"}
  BY <1>1 DEF Next, InsertGift, SettleGift, SetFee, InsertReversal, ledger
<1>3. happened' = happened \/ \E e \in Event : happened' = happened \cup {e}
  <2>1. \A e \in Event : Apply(e) \/ Break(e) => UNCHANGED provider
    BY DEF Apply, ApplyGift, GiftApplied, ApplyGiftFee, ApplyReversal, ReversalApplied,
       SubscriptionStarted, SubscriptionEnded, IntentExpired, Break, Returns
  <2>2. UNCHANGED provider => happened' = happened
    BY DEF provider
  <2>. QED BY <2>1, <2>2 DEF Step, Work, Happens, Ingest, Claim, Finish, Requeue, ExpireIntent,
          RecordOfflineGift, VoidGift, vars
<1>. QED BY <1>2, <1>3 DEF Grown

-------------------------------------------------------------------------------
(* What an event has done when the inbox says that it is over.             *)

Taken(e) == Part[e].kind = "reversal" /\ Part[e].key \in taken
Effect(e) ==
  /\ Part[e].kind = "gift" =>
       \/ gift[Part[e].pay] = Part[e].status
       \/ Part[e].status = "pending" /\ gift[Part[e].pay] # "none"
  /\ Part[e].kind = "fee" => Part[e].pay \in fee
  /\ Part[e].kind = "reversal" => Taken(e)

(* Why an event is ignored: it was given up, or its gift failed.           *)
Dropped(e, code) ==
  \/ code \in {"no_gift", "no_subscription"}
  \/ code = "no_reversal" /\ Part[e].kind = "reversal"
  \/ /\ code = "gift_failed" /\ Part[e].kind = "reversal"
     /\ gift[Reversal[Part[e].key].pay] = "failed"

Told(e) ==
  /\ inbox[e].status # "none" => e \in happened
  /\ verdict[e].outcome = "applied" => Effect(e)
  /\ verdict[e].outcome = "ignored" => Dropped(e, verdict[e].code)
  /\ inbox[e].status = "applied" => Effect(e)
  /\ inbox[e].status = "ignored" => Dropped(e, inbox[e].code)

WorkTold == \A e \in Event : Told(e)

(* What the ledger holds was told, and no failed payment is taken back.    *)
LedgerTold ==
  /\ \A p \in Payment \ Offline : gift[p] # "none" => Reported(p, gift[p])
  /\ fee \subseteq TrueFees
  /\ \A k \in taken : Reversal[k].pay \notin Offline => k \in TrueKeys

FailedUntaken ==
  \A e, f \in happened :
    ~(/\ Part[e].kind = "gift" /\ Part[e].status = "failed"
      /\ Part[f].kind = "reversal" /\ Reversal[Part[f].key].pay = Part[e].pay)

IInv == TypeOK /\ DeskVoids /\ WorkTold /\ LedgerTold /\ FailedUntaken

LEMMA EffectStays ==
  ASSUME Grown, TypeOK, NEW e \in Event, Effect(e)
  PROVE  Effect(e)'
<1>1. Part[e].kind = "gift" => Part[e].pay \in Payment /\ Part[e].status # "none"
  BY Parts
<1>2. ASSUME Part[e].kind = "gift" PROVE \/ gift'[Part[e].pay] = Part[e].status
                                         \/ Part[e].status = "pending" /\ gift'[Part[e].pay] # "none"
  BY <1>1, <1>2 DEF Grown, Effect
<1>3. (Part[e].kind = "fee" => Part[e].pay \in fee') /\ (Part[e].kind = "reversal" => Part[e].key \in taken')
  BY DEF Grown, Effect, Taken
<1>. QED BY <1>2, <1>3 DEF Effect, Taken

LEMMA DroppedStays ==
  ASSUME Grown, TypeOK, NEW e \in Event, NEW code \in Code, Dropped(e, code)
  PROVE  Dropped(e, code)'
<1>1. Part[e].kind = "reversal" => Reversal[Part[e].key].pay \in Payment
  BY Parts
<1>2. \A p \in Payment : gift[p] = "failed" => gift'[p] = "failed"
  BY DEF Grown
<1>. QED BY <1>1, <1>2 DEF Dropped

LEMMA HappenedStays ==
  ASSUME Grown
  PROVE  /\ \A p, status : Reported(p, status) => Reported(p, status)'
         /\ TrueFees \subseteq TrueFees' /\ TrueKeys \subseteq TrueKeys'
BY DEF Grown, Reported, TrueFees, TrueKeys

(* An event other than the one a step is about says what it said.          *)
LEMMA ToldStays ==
  ASSUME Grown, TypeOK, NEW e \in Event, Told(e), inbox'[e] = inbox[e], verdict'[e] = verdict[e]
  PROVE  Told(e)'
<1>1. inbox[e].code \in Code /\ verdict[e].code \in Code
  <2>1. inbox[e] \in Row /\ verdict[e] \in [outcome: Outcome, code: Code]
    BY DEF TypeOK, Outcome
  <2>. QED BY <2>1 DEF Row
<1>2. Effect(e) => Effect(e)'
  BY EffectStays
<1>3. /\ Dropped(e, inbox[e].code) => Dropped(e, inbox[e].code)'
      /\ Dropped(e, verdict[e].code) => Dropped(e, verdict[e].code)'
  <2>1. \A code \in Code : Dropped(e, code) => Dropped(e, code)'
    BY DroppedStays
  <2>. QED BY <1>1, <2>1 DEF Dropped
<1>4. e \in happened => e \in happened'
  BY DEF Grown
<1>. QED BY <1>2, <1>3, <1>4 DEF Told

(* What an apply reports is so.                                            *)
LEMMA ApplyTold ==
  ASSUME TypeOK, NEW e \in Event, Apply(e) \/ Break(e), inbox[e].status # "none" => e \in happened
  PROVE  Told(e)'
<1>1. /\ verdict \in [Event -> [outcome: Outcome, code: Code]] /\ gift \in [Payment -> Status]
  BY DEF TypeOK, Outcome
<1>2. ASSUME NEW outcome, NEW code, Returns(e, outcome, code),
             outcome = "applied" => Effect(e)', outcome = "ignored" => Dropped(e, code)'
      PROVE  Told(e)'
  <2>1. verdict'[e].outcome = outcome /\ verdict'[e].code = code /\ inbox' = inbox /\ happened' = happened
    BY <1>1, <1>2 DEF Returns, provider
  <2>2. inbox[e].status = "processing"
    BY DEF Apply, ApplyGift, ApplyGiftFee, ApplyReversal, SubscriptionStarted, SubscriptionEnded,
       IntentExpired, Break, Claimed
  <2>. QED BY <1>2, <2>1, <2>2 DEF Told, Dropped
<1>3. ASSUME NEW outcome, NEW code, Returns(e, outcome, code), outcome \notin {"applied", "ignored"}
      PROVE  Told(e)'
  BY <1>2, <1>3
<1>4. ASSUME Returns(e, "applied", ""), Effect(e)' PROVE Told(e)'
  BY <1>2, <1>4
<1>5. CASE Break(e)
  BY <1>3, <1>5 DEF Break
<1>6. CASE ApplyGift(e)
  <2>. DEFINE p == Part[e].pay
              status == Part[e].status
  <2>1. Part[e].kind = "gift" /\ p \in Payment /\ status \in Status \ {"none"}
    BY <1>6, Parts DEF ApplyGift
  <2>2. CASE GiftApplied(e, p, status)
    <3>1. CASE Returns(e, "dead", "")
      BY <1>3, <3>1
    <3>2. CASE Returns(e, "applied", "") /\ (gift' = [gift EXCEPT ![p] = status])
      BY <1>1, <1>4, <2>1, <3>2 DEF Effect
    <3>3. CASE Returns(e, "applied", "") /\ Unwritten /\ gift[p] # "none" /\ status \in {gift[p], "pending"}
      BY <1>4, <2>1, <3>3 DEF Effect, Unwritten, ledger
    <3>. HIDE DEF p, status
    <3>. QED BY <2>2, <3>1, <3>2, <3>3 DEF GiftApplied
  <2>3. CASE Returns(e, "parked", "no_subscription")
    BY <1>3, <2>3
  <2>. QED BY <1>6, <2>2, <2>3 DEF ApplyGift
<1>7. CASE ApplyGiftFee(e)
  <2>1. CASE Returns(e, "parked", "no_gift")
    BY <1>3, <2>1
  <2>2. CASE Returns(e, "applied", "") /\ Part[e].pay \in fee'
    BY <1>4, <1>7, <2>2 DEF Effect, ApplyGiftFee
  <2>. QED BY <1>7, <2>1, <2>2 DEF ApplyGiftFee, Unwritten, ledger
<1>8. CASE ApplyReversal(e)
  <2>. DEFINE k == Part[e].key
  <2>1. Part[e].kind = "reversal"
    BY <1>8 DEF ApplyReversal
  <2>2. CASE \E code \in Code : Returns(e, "parked", code) \/ Returns(e, "dead", code)
    BY <1>3, <2>2
  <2>3. CASE Returns(e, "applied", "") /\ k \in taken'
    BY <1>4, <2>1, <2>3 DEF Effect, Taken
  <2>4. CASE Returns(e, "ignored", "no_reversal")
    BY <1>2, <2>1, <2>4 DEF Dropped
  <2>5. CASE Returns(e, "ignored", "gift_failed") /\ gift'[Reversal[k].pay] = "failed"
    BY <1>2, <2>1, <2>5 DEF Dropped
  <2>6. ReversalApplied(e, k)
    BY <1>8 DEF ApplyReversal
  <2>. HIDE DEF k
  <2>7. \/ \E code \in Code : Returns(e, "parked", code) \/ Returns(e, "dead", code)
        \/ Returns(e, "applied", "") /\ k \in taken'
        \/ Returns(e, "ignored", "no_reversal")
        \/ Returns(e, "ignored", "gift_failed") /\ gift'[Reversal[k].pay] = "failed"
    BY <2>6 DEF ReversalApplied, Unwritten, ledger, Code
  <2>. QED BY <2>2, <2>3, <2>4, <2>5, <2>7
<1>9. CASE SubscriptionStarted(e) \/ SubscriptionEnded(e) \/ IntentExpired(e)
  <2>1. Effect(e)'
    BY <1>9 DEF Effect, SubscriptionStarted, SubscriptionEnded, IntentExpired
  <2>. QED BY <1>3, <1>4, <1>9, <2>1 DEF SubscriptionStarted, SubscriptionEnded, IntentExpired
<1>. QED BY <1>5, <1>6, <1>7, <1>8, <1>9 DEF Apply

LEMMA FinishTold ==
  ASSUME TypeOK, NEW e \in Event, Told(e), NEW old \in BOOLEAN, Finish(e, old)
  PROVE  Told(e)'
<1>. DEFINE status == Finished(verdict[e], inbox[e].attempts, old)
<1>1. inbox \in [Event -> Row] /\ verdict \in [Event -> [outcome: Outcome, code: Code]]
  BY DEF TypeOK, Outcome
<1>2. /\ inbox'[e].status = status /\ verdict'[e] = NoVerdict
      /\ inbox'[e].code = IF status = "ignored" THEN verdict[e].code ELSE ""
      /\ UNCHANGED ledger /\ UNCHANGED happened
  BY <1>1 DEF Finish, provider
<1>3. e \in happened
  BY DEF Told, Finish
<1>4. status = "applied" => verdict[e].outcome = "applied"
  BY DEF Finished
<1>5. status = "ignored" => \/ verdict[e].outcome = "ignored"
                            \/ verdict[e].code \in {"no_gift", "no_subscription"}
  BY DEF Finished
<1>6. status = "applied" => Effect(e)'
  BY <1>2, <1>4 DEF Told, Effect, Taken, ledger
<1>7. status = "ignored" => Dropped(e, verdict[e].code) /\ inbox'[e].code = verdict[e].code
  BY <1>2, <1>5 DEF Told, Dropped
<1>8. status = "ignored" => Dropped(e, inbox[e].code)'
  <2>. HIDE DEF status
  <2>. QED BY <1>2, <1>7 DEF Dropped, ledger
<1>9. verdict'[e].outcome = "none" /\ inbox'[e].status = status /\ e \in happened'
  <2>1. NoVerdict.outcome = "none"
    BY DEF NoVerdict
  <2>. HIDE DEF status
  <2>. QED BY <1>2, <1>3, <2>1
<1>. HIDE DEF status
<1>. QED BY <1>6, <1>8, <1>9 DEF Told

LEMMA StepTold == TypeOK /\ DeskVoids /\ WorkTold /\ [Step]_vars => WorkTold'
<1>. SUFFICES ASSUME TypeOK, DeskVoids, WorkTold, [Step]_vars, NEW e \in Event PROVE Told(e)'
  BY DEF WorkTold
<1>1. Grown /\ Told(e)
  BY StepGrows DEF WorkTold
<1>2. inbox \in [Event -> Row] /\ verdict \in [Event -> [outcome: Outcome, code: Code]]
  BY DEF TypeOK, Outcome
<1>3. ASSUME inbox' = inbox, verdict' = verdict PROVE Told(e)'
  BY <1>1, <1>3, ToldStays
<1>4. ASSUME NEW x \in Event, x # e, Work(x) \/ Ingest(x) \/ Claim(x) \/ Requeue(x) PROVE Told(e)'
  <2>1. inbox'[e] = inbox[e] /\ verdict'[e] = verdict[e]
    <3>1. \A outcome, code : Returns(x, outcome, code) => inbox'[e] = inbox[e] /\ verdict'[e] = verdict[e]
      BY <1>2, <1>4 DEF Returns
    <3>2. Apply(x) \/ Break(x) => \E outcome, code : Returns(x, outcome, code)
      BY DEF Apply, ApplyGift, GiftApplied, ApplyGiftFee, ApplyReversal, ReversalApplied,
         SubscriptionStarted, SubscriptionEnded, IntentExpired, Break
    <3>3. (\E old \in BOOLEAN : Finish(x, old)) \/ Ingest(x) \/ Claim(x) \/ Requeue(x)
            => inbox'[e] = inbox[e] /\ verdict'[e] = verdict[e]
      BY <1>2, <1>4 DEF Finish, Ingest, Claim, Requeue
    <3>. QED BY <1>4, <3>1, <3>2, <3>3 DEF Work
  <2>. QED BY <1>1, <2>1, ToldStays
<1>5. CASE Apply(e) \/ Break(e)
  BY <1>1, <1>5, ApplyTold DEF Told
<1>6. CASE \E old \in BOOLEAN : Finish(e, old)
  BY <1>1, <1>6, FinishTold
<1>7. CASE Ingest(e) \/ Claim(e) \/ Requeue(e)
  <2>1. UNCHANGED ledger /\ UNCHANGED happened
    BY <1>7 DEF Ingest, Claim, Requeue, provider
  <2>2. inbox[e] \in Row
    BY <1>2
  <2>3. inbox'[e].status \in {"received", "processing"}
    BY <1>2, <1>7, <2>2 DEF Ingest, Claim, Requeue, Row
  <2>4. verdict'[e] = verdict[e] \/ verdict'[e] = NoVerdict
    BY <1>2, <1>7 DEF Ingest, Claim, Requeue
  <2>5. e \in happened
    BY <1>1, <1>7 DEF Told, Ingest, Claim, Requeue
  <2>6. CASE verdict'[e] = NoVerdict
    <3>1. verdict'[e].outcome = "none"
      <4>1. NoVerdict.outcome = "none"
        BY DEF NoVerdict
      <4>. QED BY <2>6, <4>1
    <3>. QED BY <2>1, <2>3, <2>5, <3>1 DEF Told
  <2>7. CASE verdict'[e] = verdict[e]
    <3>1. (Effect(e) => Effect(e)') /\ \A code : Dropped(e, code) => Dropped(e, code)'
      BY <2>1 DEF Effect, Taken, Dropped, ledger
    <3>2. verdict'[e].outcome = "applied" => Effect(e)'
      BY <1>1, <2>7, <3>1 DEF Told
    <3>3. verdict'[e].outcome = "ignored" => Dropped(e, verdict[e].code)'
      BY <1>1, <2>1, <2>7 DEF Told, Dropped, ledger
    <3>. QED BY <2>1, <2>3, <2>5, <3>2, <3>3 DEF Told
  <2>. QED BY <2>4, <2>6, <2>7
<1>8. ASSUME NEW x \in Event, Happens(x) PROVE Told(e)'
  BY <1>3, <1>8 DEF Happens
<1>9. CASE \/ UNCHANGED vars \/ \E i \in Intent : ExpireIntent(i)
           \/ \E p \in Payment : RecordOfflineGift(p)
           \/ \E k \in Key : VoidGift(k)
  BY <1>3, <1>9 DEF vars, ExpireIntent, RecordOfflineGift, VoidGift
<1>. QED BY <1>4, <1>5, <1>6, <1>7, <1>8, <1>9 DEF Step, Work

(* What a step adds to the ledger was told by an event that took place.    *)
GiftGain ==
  \A p \in Payment \ Offline : gift'[p] # gift[p] =>
    \E e \in happened : Part[e].kind = "gift" /\ Part[e].pay = p /\ Part[e].status = gift'[p]
FeeGain == \A p \in fee' \ fee : \E e \in happened : Part[e].kind = "fee" /\ Part[e].pay = p
KeyGain ==
  \A k \in taken' \ taken : Reversal[k].pay \notin Offline =>
    /\ \E e \in happened : Part[e].kind = "reversal" /\ Part[e].key = k
    /\ IsReinstatement(k) => Reversal[k].offsets \in Of(Reversal[k].pay, taken)

LEMMA ApplyGains ==
  ASSUME TypeOK, NEW e \in Event, Apply(e), e \in happened
  PROVE  GiftGain /\ FeeGain /\ KeyGain
<1>1. gift \in [Payment -> Status]
  BY DEF TypeOK
<1>2. ASSUME UNCHANGED ledger PROVE GiftGain /\ FeeGain /\ KeyGain
  BY <1>2 DEF ledger, GiftGain, FeeGain, KeyGain
<1>3. CASE ApplyGift(e)
  <2>. DEFINE p == Part[e].pay
              status == Part[e].status
  <2>1. Part[e].kind = "gift"
    BY <1>3 DEF ApplyGift
  <2>2. UNCHANGED ledger \/ (gift' = [gift EXCEPT ![p] = status] /\ UNCHANGED <<fee, taken>>)
    BY <1>3 DEF ApplyGift, GiftApplied, Unwritten, ledger
  <2>3. CASE gift' = [gift EXCEPT ![p] = status] /\ UNCHANGED <<fee, taken>>
    <3>1. \A q \in Payment : gift'[q] # gift[q] => q = p /\ gift'[q] = status
      BY <1>1, <2>3
    <3>. QED BY <2>1, <2>3, <3>1 DEF GiftGain, FeeGain, KeyGain
  <2>. QED BY <1>2, <2>2, <2>3
<1>4. CASE ApplyGiftFee(e)
  <2>1. UNCHANGED ledger \/ (fee' = fee \cup {Part[e].pay} /\ UNCHANGED <<gift, taken>>)
    BY <1>4 DEF ApplyGiftFee, Unwritten
  <2>2. CASE fee' = fee \cup {Part[e].pay} /\ UNCHANGED <<gift, taken>>
    BY <1>4, <2>2 DEF ApplyGiftFee, GiftGain, FeeGain, KeyGain
  <2>. QED BY <1>2, <2>1, <2>2
<1>5. CASE ApplyReversal(e)
  <2>. DEFINE k == Part[e].key
  <2>1. UNCHANGED ledger \/ (taken' = taken \cup {k} /\ ~Missing(k) /\ UNCHANGED <<gift, fee>>)
    BY <1>5 DEF ApplyReversal, ReversalApplied, Unwritten
  <2>2. CASE taken' = taken \cup {k} /\ ~Missing(k) /\ UNCHANGED <<gift, fee>>
    BY <1>5, <2>2 DEF ApplyReversal, Missing, GiftGain, FeeGain, KeyGain
  <2>. QED BY <1>2, <2>1, <2>2
<1>6. CASE SubscriptionStarted(e) \/ SubscriptionEnded(e) \/ IntentExpired(e)
  BY <1>2, <1>6 DEF SubscriptionStarted, SubscriptionEnded, IntentExpired, Unwritten
<1>. QED BY <1>3, <1>4, <1>5, <1>6 DEF Apply

LEMMA StepGains == TypeOK /\ WorkTold /\ [Step]_vars => GiftGain /\ FeeGain /\ KeyGain
<1>. SUFFICES ASSUME TypeOK, WorkTold, [Step]_vars PROVE GiftGain /\ FeeGain /\ KeyGain
  OBVIOUS
<1>1. ASSUME UNCHANGED ledger PROVE GiftGain /\ FeeGain /\ KeyGain
  BY <1>1 DEF ledger, GiftGain, FeeGain, KeyGain
<1>2. ASSUME NEW e \in Event, Apply(e) PROVE GiftGain /\ FeeGain /\ KeyGain
  <2>1. inbox[e].status = "processing"
    BY <1>2 DEF Apply, ApplyGift, ApplyGiftFee, ApplyReversal, SubscriptionStarted, SubscriptionEnded,
       IntentExpired, Claimed
  <2>2. e \in happened
    BY <2>1 DEF WorkTold, Told
  <2>. QED BY <1>2, <2>2, ApplyGains
<1>3. ASSUME NEW p \in Payment, RecordOfflineGift(p) PROVE GiftGain /\ FeeGain /\ KeyGain
  <2>1. gift' = [gift EXCEPT ![p] = "succeeded"] /\ p \in Offline /\ fee' = fee /\ taken' = taken
    BY <1>3 DEF RecordOfflineGift
  <2>. QED BY <2>1 DEF GiftGain, FeeGain, KeyGain, TypeOK
<1>4. ASSUME NEW k \in Key, VoidGift(k) PROVE GiftGain /\ FeeGain /\ KeyGain
  BY <1>4 DEF VoidGift, GiftGain, FeeGain, KeyGain
<1>5. CASE \/ \E e \in Event : Break(e) \/ (\E old \in BOOLEAN : Finish(e, old))
                               \/ Happens(e) \/ Ingest(e) \/ Claim(e) \/ Requeue(e)
           \/ \E i \in Intent : ExpireIntent(i)
           \/ UNCHANGED vars
  <2>1. UNCHANGED ledger
    BY <1>5 DEF Break, Finish, Happens, Ingest, Claim, Requeue, ExpireIntent, Unwritten, vars, ledger
  <2>. QED BY <1>1, <2>1
<1>. QED BY <1>2, <1>3, <1>4, <1>5 DEF Step, Work

LEMMA StepLedgerTold == TypeOK /\ DeskVoids /\ WorkTold /\ LedgerTold /\ [Step]_vars => LedgerTold'
<1>. SUFFICES ASSUME TypeOK, DeskVoids, WorkTold, LedgerTold, [Step]_vars PROVE LedgerTold'
  OBVIOUS
<1>1. happened \subseteq happened' /\ TrueFees \subseteq TrueFees' /\ TrueKeys \subseteq TrueKeys'
  BY StepGrows, HappenedStays DEF Grown
<1>2. GiftGain /\ FeeGain /\ KeyGain
  BY StepGains
<1>3. ASSUME NEW p \in Payment \ Offline, gift'[p] # "none" PROVE Reported(p, gift[p])'
  <2>1. \E e \in happened : Part[e].kind = "gift" /\ Part[e].pay = p /\ Part[e].status = gift'[p]
    <3>1. CASE gift'[p] = gift[p]
      BY <1>3, <3>1 DEF LedgerTold, Reported
    <3>2. CASE gift'[p] # gift[p]
      BY <1>2, <3>2 DEF GiftGain
    <3>. QED BY <3>1, <3>2
  <2>. QED BY <1>1, <2>1 DEF Reported
<1>4. ASSUME NEW p \in fee' PROVE p \in TrueFees'
  <2>1. p \in TrueFees
    BY <1>2 DEF FeeGain, TrueFees, LedgerTold
  <2>. QED BY <1>1, <2>1
<1>5. ASSUME NEW k \in taken', Reversal[k].pay \notin Offline PROVE k \in TrueKeys'
  <2>1. CASE k \in taken
    BY <1>1, <1>5, <2>1 DEF LedgerTold
  <2>2. CASE k \notin taken
    <3>. DEFINE o == Reversal[k].offsets
    <3>1. \E e \in happened : Part[e].kind = "reversal" /\ Part[e].key = k
      BY <1>2, <1>5, <2>2 DEF KeyGain
    <3>2. IsReinstatement(k) => \E e \in happened : Part[e].kind = "reversal" /\ Part[e].key = o
      <4>1. IsReinstatement(k) => o \in taken /\ Reversal[o].pay = Reversal[k].pay
        BY <1>2, <1>5, <2>2 DEF KeyGain, Of
      <4>2. IsReinstatement(k) => o \in TrueKeys
        BY <1>5, <4>1 DEF LedgerTold
      <4>. QED BY <4>2 DEF TrueKeys
    <3>3. k \in TrueKeys
      BY <3>1, <3>2 DEF TrueKeys
    <3>. QED BY <1>1, <3>3
  <2>. QED BY <2>1, <2>2
<1>. QED BY <1>3, <1>4, <1>5 DEF LedgerTold

LEMMA StepUntaken == TypeOK /\ FailedUntaken /\ [Step]_vars => FailedUntaken'
<1>. SUFFICES ASSUME TypeOK, FailedUntaken, [Step]_vars PROVE FailedUntaken'
  OBVIOUS
<1>1. ASSUME NEW x \in Event, Happens(x) PROVE FailedUntaken'
  <2>1. /\ happened' = happened \cup {x} /\ Excludes[x] \cap happened = {}
        /\ happened \subseteq Event
    BY <1>1 DEF Happens, TypeOK
  <2>2. ASSUME NEW e \in happened', NEW f \in happened', Part[e].kind = "gift", Part[e].status = "failed",
               Part[f].kind = "reversal", Reversal[Part[f].key].pay = Part[e].pay
        PROVE  FALSE
    <3>1. e \in Event /\ f \in Event
      BY <2>1
    <3>2. e \in Excludes[f] /\ f \in Excludes[e]
      BY <2>2, <3>1, FailedAssumption
    <3>3. e # f
      BY <2>2
    <3>. QED BY <2>1, <2>2, <3>2, <3>3 DEF FailedUntaken
  <2>. QED BY <2>2 DEF FailedUntaken
<1>2. ASSUME happened' = happened PROVE FailedUntaken'
  BY <1>2 DEF FailedUntaken
<1>3. ASSUME NEW e \in Event, Work(e) PROVE FailedUntaken'
  <2>1. UNCHANGED provider
    BY <1>3 DEF Work, Apply, ApplyGift, GiftApplied, ApplyGiftFee, ApplyReversal, ReversalApplied,
       SubscriptionStarted, SubscriptionEnded, IntentExpired, Break, Finish, Returns
  <2>. QED BY <1>2, <2>1 DEF provider
<1>4. CASE \/ \E e \in Event : Ingest(e) \/ Claim(e) \/ Requeue(e)
           \/ \E i \in Intent : ExpireIntent(i)
           \/ \E p \in Payment : RecordOfflineGift(p)
           \/ \E k \in Key : VoidGift(k)
           \/ UNCHANGED vars
  BY <1>2, <1>4 DEF Ingest, Claim, Requeue, ExpireIntent, RecordOfflineGift, VoidGift, vars, provider
<1>. QED BY <1>1, <1>3, <1>4 DEF Step

LEMMA StartTold == Start => WorkTold /\ LedgerTold /\ FailedUntaken
<1>. SUFFICES ASSUME Start PROVE WorkTold /\ LedgerTold /\ FailedUntaken
  OBVIOUS
<1>1. \A e \in Event : inbox[e].status = "none" /\ verdict[e].outcome = "none"
  BY DEF Start, NoRow, NoVerdict
<1>2. WorkTold
  BY <1>1 DEF WorkTold, Told
<1>3. LedgerTold /\ FailedUntaken
  BY DEF Start, Init, LedgerTold, FailedUntaken
<1>. QED BY <1>2, <1>3

(* The inductive invariant of the inbox.                                   *)
THEOREM Inductive == IngestSpec => []IInv
<1>1. Start => IInv
  BY StartTyped, StartTold DEF IInv
<1>2. IInv /\ [Step]_vars => IInv'
  BY StepTyped, StepVoids, StepTold, StepLedgerTold, StepUntaken DEF IInv
<1>. QED BY <1>1, <1>2, PTL DEF IngestSpec

-------------------------------------------------------------------------------
(* Convergence *)

LEMMA InvConverges == IInv => Converged
<1>. SUFFICES ASSUME IInv, Settled
              PROVE  /\ \A p \in Payment \ Offline : gift[p] = TrueStatus(p)
                     /\ {k \in taken : Reversal[k].pay \notin Offline} = TrueKeys
                     /\ fee = TrueFees
  BY DEF Converged
<1>1. gift \in [Payment -> Status] /\ happened \subseteq Event
  BY DEF IInv, TypeOK
<1>2. ASSUME NEW e \in happened, Part[e].kind \in {"gift", "fee"} PROVE Effect(e)
  <2>1. e \in Event /\ Told(e) /\ inbox[e].status \in {"applied", "ignored"} /\ ~GivenUp(e)
    BY <1>1 DEF IInv, WorkTold, Settled
  <2>. QED BY <1>2, <2>1 DEF Told, Dropped, GivenUp
<1>3. ASSUME NEW p \in Payment \ Offline PROVE gift[p] = TrueStatus(p)
  <2>1. ASSUME NEW status \in Status, Reported(p, status)
        PROVE  gift[p] = status \/ (status = "pending" /\ gift[p] # "none")
    <3>1. PICK e \in happened : Part[e].kind = "gift" /\ Part[e].pay = p /\ Part[e].status = status
      BY <2>1 DEF Reported
    <3>2. Effect(e)
      BY <1>2, <3>1
    <3>. QED BY <3>1, <3>2 DEF Effect
  <2>2. gift[p] # "none" => Reported(p, gift[p])
    BY DEF IInv, LedgerTold
  <2>3. gift[p] \in Status
    BY <1>1
  <2>4. ~Reported(p, "none")
    BY <1>1, Parts DEF Reported
  <2>5. CASE Reported(p, "failed")
    <3>1. gift[p] = "failed"
      BY <2>1, <2>5 DEF Status
    <3>. QED BY <2>5, <3>1 DEF TrueStatus
  <2>6. CASE ~Reported(p, "failed") /\ Reported(p, "succeeded")
    <3>1. gift[p] = "succeeded"
      BY <2>1, <2>6 DEF Status
    <3>. QED BY <2>6, <3>1 DEF TrueStatus
  <2>7. CASE ~Reported(p, "failed") /\ ~Reported(p, "succeeded") /\ Reported(p, "pending")
    <3>1. gift[p] = "pending"
      BY <2>1, <2>2, <2>3, <2>7 DEF Status
    <3>. QED BY <2>7, <3>1 DEF TrueStatus
  <2>8. CASE ~Reported(p, "failed") /\ ~Reported(p, "succeeded") /\ ~Reported(p, "pending")
    <3>1. gift[p] = "none"
      BY <2>2, <2>3, <2>8 DEF Status
    <3>. QED BY <2>8, <3>1 DEF TrueStatus
  <2>. QED BY <2>5, <2>6, <2>7, <2>8
<1>4. fee = TrueFees
  <2>1. ASSUME NEW p \in TrueFees PROVE p \in fee
    <3>1. PICK e \in happened : Part[e].kind = "fee" /\ Part[e].pay = p
      BY DEF TrueFees
    <3>. QED BY <1>2, <3>1 DEF Effect
  <2>. QED BY <2>1 DEF IInv, LedgerTold
<1>5. ASSUME NEW k \in TrueKeys PROVE k \in taken /\ Reversal[k].pay \notin Offline
  <2>1. PICK e \in happened : Part[e].kind = "reversal" /\ Part[e].key = k
    BY DEF TrueKeys
  <2>2. e \in Event /\ Told(e) /\ inbox[e].status \in {"applied", "ignored"} /\ ~GivenUp(e)
    BY <1>1 DEF IInv, WorkTold, Settled
  <2>. DEFINE p == Reversal[k].pay
  <2>3. p \in Payment \ Offline
    BY <2>1, <2>2, Parts
  <2>4. gift[p] # "failed"
    <3>1. SUFFICES ASSUME gift[p] = "failed" PROVE FALSE
      OBVIOUS
    <3>2. Reported(p, "failed")
      BY <2>3, <3>1 DEF IInv, LedgerTold
    <3>. QED BY <2>1, <3>2 DEF Reported, IInv, FailedUntaken
  <2>5. inbox[e].status # "ignored"
    BY <2>1, <2>2, <2>4 DEF Told, Dropped, GivenUp
  <2>6. Effect(e)
    BY <2>2, <2>5 DEF Told
  <2>. QED BY <2>1, <2>3, <2>6 DEF Effect, Taken
<1>6. {k \in taken : Reversal[k].pay \notin Offline} = TrueKeys
  BY <1>5 DEF IInv, LedgerTold
<1>. QED BY <1>3, <1>4, <1>6

(* Whatever the order of the events, their repetitions and the crashes of  *)
(* the workers: when every event is over and none was given up or is a     *)
(* dead letter, the ledger is the provider's, gift by gift, reversal by    *)
(* reversal and fee by fee.                                                *)
THEOREM ConvergedHolds == IngestSpec => []Converged
BY Inductive, InvConverges, PTL

-------------------------------------------------------------------------------
(* What is taken back *)

(* What is taken back of a payment, less what was given back, is never     *)
(* negative and never more than the payment.                               *)
NetWithin == \A p \in Payment : Net(p, taken) \in 0..Price[p]

(* What is given back was taken of the same gift, and was not itself given *)
(* back.                                                                   *)
OffsetsTaken ==
  \A k \in taken : IsReinstatement(k) =>
    /\ Reversal[k].offsets \in Of(Reversal[k].pay, taken)
    /\ ~IsReinstatement(Reversal[k].offsets)

LEMMA LedgerBounds == Spec => [](NetWithin /\ OffsetsTaken)
<1>1. Init => NetWithin /\ OffsetsTaken
  <2>1. \A p : Of(p, {}) = {}
    BY DEF Of
  <2>2. \A p : Net(p, {}) = Total({}) - Total({})
    BY <2>1 DEF Net
  <2>3. \A p : Net(p, {}) = 0
    BY <2>2, TotalEmpty
  <2>. QED BY <2>3, PriceAssumption DEF Init, NetWithin, OffsetsTaken
<1>2. NetWithin /\ OffsetsTaken /\ [Next]_ledger => (NetWithin /\ OffsetsTaken)'
  <2>. SUFFICES ASSUME NetWithin, OffsetsTaken, [Next]_ledger PROVE (NetWithin /\ OffsetsTaken)'
    OBVIOUS
  <2>1. CASE taken' = taken
    BY <2>1 DEF NetWithin, OffsetsTaken
  <2>2. ASSUME NEW k \in Key, InsertReversal(k) PROVE (NetWithin /\ OffsetsTaken)'
    <3>. DEFINE with == taken \cup {k}
    <3>1. Bound(k, taken) /\ taken' = with
      BY <2>2 DEF InsertReversal
    <3>2. Net(Reversal[k].pay, with) \in 0..Price[Reversal[k].pay]
      BY <3>1 DEF Bound
    <3>3. ASSUME NEW p, p # Reversal[k].pay PROVE Net(p, with) = Net(p, taken)
      <4>1. Of(p, with) = Of(p, taken)
        BY <3>3 DEF Of
      <4>. HIDE DEF with
      <4>. QED BY <4>1 DEF Net
    <3>4. \A p \in Payment : Net(p, with) \in 0..Price[p]
      <4>. HIDE DEF with
      <4>. QED BY <3>2, <3>3 DEF NetWithin
    <3>5. OffsetsTaken'
      BY <3>1 DEF OffsetsTaken, Bound, Of
    <3>6. \A p : Net(p, with) = Net(p, taken)'
      BY <3>1
    <3>. QED BY <3>4, <3>5, <3>1 DEF NetWithin
  <2>. QED BY <2>1, <2>2 DEF Next, InsertGift, SettleGift, SetFee, ledger
<1>. QED BY <1>1, <1>2, PTL DEF Spec

(* No order of refunds, disputes, reinstatements and voids takes back more *)
(* of a gift than was given, or gives back more than was taken; a          *)
(* reinstatement has the reversal it offsets beside it.                    *)
THEOREM WithinGift == IngestSpec => [](NetWithin /\ OffsetsTaken)
BY LedgerKeptHolds, LedgerBounds DEF LedgerKept

===============================================================================

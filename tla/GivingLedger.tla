------------------------------ MODULE GivingLedger ------------------------------
(***************************************************************************)
(* What the giving tables promise (drizzle/0055, the triggers on           *)
(* giving_gifts and giving_gift_reversals): a gift is frozen but for one   *)
(* step out of pending and one fee, a reversal is written once and never   *)
(* changed, and what is taken back from a gift stays within the gift.      *)
(* Any function that writes these tables makes steps of this Spec, or the  *)
(* triggers refuse them.                                                   *)
(***************************************************************************)
EXTENDS Integers, FiniteSets, FiniteSetsExt

CONSTANTS
  Payment,  \* gifts, by the provider's payment (or by the offline entry)
  Offline,  \* gifts entered at the desk
  Key,      \* reversals, by the provider's reversal id; a void by its gift
  Price,    \* [Payment -> Nat \ {0}]: amount_cents
  Reversal  \* [Key -> [pay, kind, amount, offsets]]

Kind == {"refund", "dispute", "void", "reinstatement"}

ASSUME PriceAssumption == Offline \subseteq Payment /\ Price \in [Payment -> Nat \ {0}]
ASSUME ReversalAssumption ==
  \A k \in Key : /\ Reversal[k].pay \in Payment
                 /\ Reversal[k].kind \in Kind
                 /\ Reversal[k].amount \in Nat \ {0}
                 /\ Reversal[k].kind = "reinstatement" => Reversal[k].offsets \in Key

VARIABLES
  gift,  \* giving_gifts: status of each payment's row, "none" before it exists
  fee,   \* payments whose fee and net are set
  taken  \* giving_gift_reversals

ledger == <<gift, fee, taken>>

Status == {"none", "pending", "succeeded", "failed"}

IsReinstatement(k) == Reversal[k].kind = "reinstatement"

Of(p, reversals) == {k \in reversals : Reversal[k].pay = p}
Back(k, reversals) == {r \in reversals : IsReinstatement(r) /\ Reversal[r].offsets = k}
Total(reversals) == MapThenSumSet(LAMBDA k : Reversal[k].amount, reversals)

(* The net reversed of a payment.                                          *)
Net(p, reversals) ==
  LET mine == Of(p, reversals)
      back == {k \in mine : IsReinstatement(k)}
  IN  Total(mine \ back) - Total(back)

(* presby_giving_check_reversal_bound: what is asked of a reversal k that  *)
(* joins those there are.                                                  *)
Bound(k, reversals) ==
  LET p == Reversal[k].pay
      o == Reversal[k].offsets
  IN
  /\ Reversal[k].kind = "void" => p \in Offline
  /\ IsReinstatement(k) =>
       /\ o \in Of(p, reversals) /\ ~IsReinstatement(o)
       /\ Reversal[k].amount <= Reversal[o].amount - Total(Back(o, reversals))
  /\ Net(p, reversals \cup {k}) \in 0..Price[p]

Init ==
  /\ gift = [p \in Payment |-> "none"]
  /\ fee = {}
  /\ taken = {}

InsertGift(p, status) ==
  /\ gift[p] = "none" /\ status \in Status \ {"none"}
  /\ gift' = [gift EXCEPT ![p] = status]
  /\ UNCHANGED <<fee, taken>>

(* presby_giving_guard_gift_write *)
SettleGift(p, status) ==
  /\ gift[p] = "pending" /\ status \in {"succeeded", "failed"}
  /\ gift' = [gift EXCEPT ![p] = status]
  /\ UNCHANGED <<fee, taken>>

SetFee(p) ==
  /\ gift[p] # "none" /\ p \notin fee
  /\ fee' = fee \cup {p}
  /\ UNCHANGED <<gift, taken>>

(* The unique reversal ids, then presby_giving_check_reversal_bound.       *)
InsertReversal(k) ==
  /\ k \notin taken
  /\ gift[Reversal[k].pay] = "succeeded"
  /\ Bound(k, taken)
  /\ taken' = taken \cup {k}
  /\ UNCHANGED <<gift, fee>>

Next ==
  \/ \E p \in Payment : \/ \E status \in Status : InsertGift(p, status) \/ SettleGift(p, status)
                        \/ SetFee(p)
  \/ \E k \in Key : InsertReversal(k)

Spec == Init /\ [][Next]_ledger

===============================================================================

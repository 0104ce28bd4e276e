-------------------------------- MODULE MCGiving --------------------------------
(* GivingIngest on the stories of four payments: a single gift by card, one *)
(* by bank debit (pending first), the first gift of a monthly intent, and   *)
(* one entered at the desk.  Amounts are in units.                          *)
EXTENDS GivingIngest

MCPayment == {"card", "bank", "monthly", "desk"}
MCPrice == [p \in MCPayment |-> 2]

Rev(p, kind, amount, offsets) == [pay |-> p, kind |-> kind, amount |-> amount, offsets |-> offsets]
MCReversal ==
  [refund  |-> Rev("card", "refund", 2, "none"),
   failed  |-> Rev("card", "reinstatement", 2, "refund"),
   part    |-> Rev("card", "refund", 1, "none"),
   dispute |-> Rev("bank", "dispute", 2, "none"),
   won     |-> Rev("bank", "reinstatement", 2, "dispute"),
   void    |-> Rev("desk", "void", 2, "none")]
MCKey == DOMAIN MCReversal

MCIntentOf == [card |-> "i1", bank |-> "i1", monthly |-> "i2"]

GiftEvent(p, status) == [kind |-> "gift", pay |-> p, status |-> status]
ReversalEvent(k) == [kind |-> "reversal", key |-> k]
MCPart ==
  [paid      |-> GiftEvent("card", "succeeded"),
   charge    |-> [kind |-> "fee", pay |-> "card"],
   refunded  |-> ReversalEvent("refund"),
   refunded2 |-> ReversalEvent("part"),
   returned  |-> ReversalEvent("failed"),
   lapsed    |-> [kind |-> "expired", intent |-> "i1"],
   started   |-> [kind |-> "started", intent |-> "i2"],
   renewed   |-> GiftEvent("monthly", "succeeded"),
   stopped   |-> [kind |-> "ended", intent |-> "i2"],
   unpaid    |-> GiftEvent("bank", "pending"),
   cleared   |-> GiftEvent("bank", "succeeded"),
   bounced   |-> GiftEvent("bank", "failed"),
   disputed  |-> ReversalEvent("dispute"),
   withdrawn |-> ReversalEvent("dispute"),
   won       |-> ReversalEvent("won")]
MCEvent == DOMAIN MCPart

(* The order of things at the provider.  A refund may fail before it was   *)
(* ever reported as succeeded, not the other way round.  What bounced was  *)
(* never there to be disputed.                                             *)
MCAfter ==
  [e \in MCEvent |->
    CASE e \in {"charge", "refunded", "returned"} -> {"paid"}
      [] e = "refunded2" -> {"paid", "returned"}
      [] e \in {"renewed", "stopped"} -> {"started"}
      [] e \in {"cleared", "bounced"} -> {"unpaid"}
      [] e \in {"disputed", "withdrawn"} -> {"cleared"}
      [] e = "won" -> {"disputed", "withdrawn"}
      [] OTHER -> {}]
MCExcludes ==
  [e \in MCEvent |->
    CASE e = "refunded" -> {"returned"}
      [] e = "bounced" -> {"cleared", "disputed", "withdrawn", "won"}
      [] e \in {"cleared", "disputed", "withdrawn", "won"} -> {"bounced"}
      [] e = "lapsed" -> {"paid"}
      [] e = "paid" -> {"lapsed"}
      [] OTHER -> {}]

MCStories ==
  {{"paid", "refunded", "returned"}, {"paid", "charge", "lapsed", "i1"}, {"desk"},
   {"started", "renewed", "stopped"}, {"unpaid", "cleared", "bounced"},
   {"unpaid", "cleared", "disputed"}}
LongStories == MCStories \cup {{"paid", "refunded", "returned", "refunded2"}, {"cleared", "disputed", "withdrawn", "won"}}
===============================================================================

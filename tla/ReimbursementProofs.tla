-------------------------- MODULE ReimbursementProofs --------------------------
(***************************************************************************)
(* Proofs about one expense request, for every set of logins and persons,  *)
(* every content and every number of receipts and revisions.               *)
(*                                                                         *)
(* None of the properties is inductive by itself.  What carries them is    *)
(* PagesOK: a page with the revision of the row shows the row, so that the *)
(* comparison of two numbers in every function stands for the comparison   *)
(* of all that was shown.                                                  *)
(***************************************************************************)
EXTENDS Reimbursement, TLAPS

USE UserAssumption, ContentAssumption, ReceiptAssumption, RoleAssumption, RevAssumption

(* A page of the revision in force shows what the row says.                *)
PagesOK ==
  \A page \in pages : /\ page.rev <= req.rev
                      /\ page.rev = req.rev => page = Page(req, receipts)

NothingYet == req.status = "none" => receipts = 0 /\ waivedBy = NoUser /\ live = NoUser

ApprovalOK ==
  req.status \in {"approved", "paid"} =>
    /\ seen = Page(req, receipts) /\ req.approvedRev = req.rev
    /\ req.approver \in User /\ ~Interested(req.approver)

WaiverOK ==
  waivedBy # NoUser =>
    /\ req.status \in {"submitted", "approved", "paid"}
    /\ waivedOn = Page(req, receipts) /\ ~Interested(waivedBy)

PaymentOK ==
  /\ (req.status = "paid") <=> (live # NoUser)
  /\ live # NoUser => ~Same(live, req.approver)
  /\ req.status = "paid" => receipts > 0 \/ waivedBy # NoUser

IInv == TypeOK /\ PagesOK /\ NothingYet /\ ApprovalOK /\ WaiverOK /\ PaymentOK

Request == [status: Status, rev: 0..MaxRev, content: Content, claimed: BOOLEAN,
            approver: User \cup {NoUser}, approvedRev: 0..MaxRev]

LEMMA FirstRequest == NoRequest \in Request
<1>1. (CHOOSE c \in Content : TRUE) \in Content
  OBVIOUS
<1>. QED BY <1>1 DEF NoRequest, Request, Status

LEMMA PageTyped ==
  ASSUME NEW r \in Request, NEW n \in 0..MaxReceipts
  PROVE  Page(r, n) \in PageSet
BY DEF Page, PageSet, Request

LEMMA NoPageTyped == NoPage \in PageSet
<1>1. NoRequest.content \in Content
  BY FirstRequest DEF Request
<1>. QED BY <1>1 DEF NoPage, PageSet

LEMMA MovedTyped ==
  ASSUME NEW r \in Request, NEW to \in Status
  PROVE  /\ Moved(r, to) \in Request
         /\ Moved(r, to).status = to /\ Moved(r, to).rev = r.rev
         /\ \A n : Page(Moved(r, to), n) = Page(r, n)
<1>. DEFINE by == IF to \in {"approved", "paid"} THEN r.approver ELSE NoUser
            of == IF to \in {"approved", "paid"} THEN r.approvedRev ELSE 0
<1>1. by \in User \cup {NoUser} /\ of \in 0..MaxRev
  BY DEF Request
<1>2. Moved(r, to) = [r EXCEPT !.status = to, !.approver = by, !.approvedRev = of]
  BY DEF Moved
<1>. HIDE DEF by, of
<1>3. Moved(r, to) \in Request /\ Moved(r, to).status = to
  BY <1>1, <1>2 DEF Request
<1>4. Moved(r, to).rev = r.rev /\ Moved(r, to).content = r.content
  BY <1>2 DEF Request
<1>. QED BY <1>3, <1>4 DEF Page

LEMMA Typed == ASSUME TypeOK PROVE req \in Request
BY DEF TypeOK, Request

LEMMA InitIInv == Start => IInv
<1>. SUFFICES ASSUME Start PROVE IInv
  OBVIOUS
<1>1. req = NoRequest /\ receipts = 0 /\ live = NoUser /\ waivedBy = NoUser
  BY DEF Start, Init
<1>2. NoRequest.status = "none"
  BY DEF NoRequest
<1>3. TypeOK
  <2>1. req \in Request /\ receipts \in 0..MaxReceipts
    BY <1>1, FirstRequest
  <2>2. /\ seat \subseteq SeatUser /\ pay \subseteq PayUser /\ pages = {}
        /\ filer = TRUE /\ chargeable = TRUE /\ first = FALSE
        /\ seen = NoPage /\ waivedOn = NoPage
    BY DEF Start
  <2>. QED BY <1>1, <2>1, <2>2, NoPageTyped DEF TypeOK, Request
<1>. QED BY <1>1, <1>2, <1>3 DEF Start, IInv, PagesOK, NothingYet, ApprovalOK, WaiverOK, PaymentOK

LEMMA SaveDraftKeeps == ASSUME IInv, SaveDraft PROVE IInv'
<1>1. PICK c \in Content, none \in BOOLEAN :
        req' = [NoRequest EXCEPT !.status = "draft", !.rev = 1, !.content = c, !.claimed = none]
  BY DEF SaveDraft
<1>2. req' \in Request /\ req'.status = "draft" /\ req'.rev = 1
  <2>1. "draft" \in Status /\ 1 \in 0..MaxRev
    BY DEF Status
  <2>. QED BY <1>1, <2>1, FirstRequest DEF Request
<1>3. receipts' = 0 /\ waivedBy' = NoUser /\ live' = NoUser
  BY DEF SaveDraft, IInv, NothingYet
<1>4. TypeOK'
  <2>1. pages' = {Page(req', 0)} /\ Page(req', 0) \in PageSet
    BY <1>2, PageTyped DEF SaveDraft
  <2>2. UNCHANGED <<seat, pay, filer, chargeable, first, seen, waivedOn>>
    BY DEF SaveDraft, roles
  <2>. QED BY <1>2, <1>3, <2>1, <2>2 DEF IInv, TypeOK, Request
<1>5. PagesOK'
  <2>1. pages' = {Page(req', 0)} /\ receipts' = 0
    BY <1>3 DEF SaveDraft
  <2>2. Page(req', 0).rev = req'.rev
    BY DEF Page
  <2>. QED BY <1>2, <2>1, <2>2 DEF PagesOK
<1>. QED BY <1>2, <1>3, <1>4, <1>5 DEF IInv, NothingYet, ApprovalOK, WaiverOK, PaymentOK

(* What a counted change keeps: the page of the new revision is the only   *)
(* one that has it.                                                        *)
LEMMA CountedKeepsPages ==
  ASSUME TypeOK, PagesOK, req'.rev = req.rev + 1, pages' = pages \cup {Page(req', receipts')}
  PROVE  PagesOK'
<1>1. ASSUME NEW page \in pages PROVE page.rev <= req'.rev /\ page.rev # req'.rev
  BY <1>1 DEF PagesOK, TypeOK, PageSet
<1>2. Page(req', receipts').rev = req'.rev
  BY DEF Page
<1>. QED BY <1>1, <1>2, Typed DEF PagesOK, Request

LEMMA EditKeeps == ASSUME IInv, NEW page \in pages, UpdateRequest(page) PROVE IInv'
<1>1. PICK c \in Content, none \in BOOLEAN :
        req.rev < MaxRev /\ req' = [req EXCEPT !.content = c, !.claimed = none, !.rev = @ + 1]
  BY DEF UpdateRequest
<1>2. req \in Request
  BY Typed DEF IInv
<1>3. req' \in Request /\ req'.status = req.status /\ req'.rev = req.rev + 1
  <2>1. req.rev + 1 \in 0..MaxRev
    BY <1>1, <1>2 DEF Request
  <2>. QED BY <1>1, <1>2, <2>1 DEF Request
<1>4. receipts' = receipts /\ receipts \in 0..MaxReceipts /\ pages' = pages \cup {Page(req', receipts)}
  BY DEF UpdateRequest, IInv, TypeOK
<1>5. PagesOK'
  BY <1>3, <1>4, CountedKeepsPages DEF IInv
<1>6. TypeOK'
  BY <1>3, <1>4, PageTyped DEF UpdateRequest, IInv, TypeOK, Request, roles
<1>7. req.status \in {"draft", "returned"} /\ live' = live /\ waivedBy' = waivedBy
  BY DEF UpdateRequest, Editable
<1>. QED BY <1>3, <1>5, <1>6, <1>7 DEF IInv, NothingYet, ApprovalOK, WaiverOK, PaymentOK

LEMMA ReceiptsKeep == ASSUME IInv, NEW n \in Nat, ChangeReceipts(n) PROVE IInv'
<1>1. req \in Request
  BY Typed DEF IInv
<1>2. req' \in Request /\ req'.status = req.status /\ req'.rev = req.rev + 1
  BY <1>1 DEF ChangeReceipts, Request
<1>3. receipts' = n /\ n \in 0..MaxReceipts /\ pages' = pages \cup {Page(req', receipts')}
  BY DEF ChangeReceipts
<1>4. PagesOK'
  BY <1>2, <1>3, CountedKeepsPages DEF IInv
<1>5. TypeOK'
  BY <1>2, <1>3, PageTyped DEF ChangeReceipts, IInv, TypeOK, Request, roles
<1>6. req.status \in {"draft", "returned"} /\ live' = live /\ waivedBy' = waivedBy
  BY DEF ChangeReceipts, Editable
<1>. QED BY <1>2, <1>4, <1>5, <1>6 DEF IInv, NothingYet, ApprovalOK, WaiverOK, PaymentOK

(* A move keeps the pages true: it leaves what they show alone.            *)
LEMMA MoveKeepsPages ==
  ASSUME PagesOK, req'.rev = req.rev, pages' = pages, receipts' = receipts,
         Page(req', receipts) = Page(req, receipts)
  PROVE  PagesOK'
BY DEF PagesOK

LEMMA SubmitKeeps == ASSUME IInv, NEW page \in pages, Submit(page) PROVE IInv'
<1>1. req \in Request /\ "submitted" \in Status
  BY Typed DEF IInv, Status
<1>2. req' = Moved(req, "submitted") /\ receipts' = receipts /\ pages' = pages
  BY DEF Submit, history
<1>3. /\ req' \in Request /\ req'.status = "submitted" /\ req'.rev = req.rev
      /\ Page(req', receipts) = Page(req, receipts)
  BY <1>1, <1>2, MovedTyped
<1>4. PagesOK'
  BY <1>2, <1>3, MoveKeepsPages DEF IInv
<1>5. TypeOK'
  BY <1>3 DEF Submit, IInv, TypeOK, Request, roles, history
<1>6. req.status \in {"draft", "returned"} /\ live' = live /\ waivedBy' = waivedBy
  BY DEF Submit, Editable
<1>. QED BY <1>3, <1>4, <1>5, <1>6 DEF IInv, NothingYet, ApprovalOK, WaiverOK, PaymentOK

LEMMA LeavingKeeps ==
  ASSUME IInv, NEW to \in {"withdrawn", "returned", "not_approved", "voided"}, Left(to),
         req.status \notin {"none", "paid"}
  PROVE  IInv'
<1>1. req \in Request /\ to \in Status
  BY Typed DEF IInv, Status
<1>2. /\ req' = Moved(req, to) /\ receipts' = receipts /\ pages' = pages /\ live' = live
      /\ waivedBy' = NoUser /\ waivedOn' = NoPage /\ seen' = NoPage
  BY DEF Left, WaiverAfter
<1>3. /\ req' \in Request /\ req'.status = to /\ req'.rev = req.rev
      /\ Page(req', receipts) = Page(req, receipts)
  BY <1>1, <1>2, MovedTyped
<1>4. PagesOK'
  BY <1>2, <1>3, MoveKeepsPages DEF IInv
<1>5. TypeOK'
  BY <1>2, <1>3, NoPageTyped DEF Left, IInv, TypeOK, Request, roles
<1>. QED BY <1>2, <1>3, <1>4, <1>5 DEF IInv, NothingYet, ApprovalOK, WaiverOK, PaymentOK

(* The page of the revision in force is what the approval is of.           *)
LEMMA ApprovedKeeps ==
  ASSUME IInv, NEW u \in User, NEW page \in pages, Approved(u, page),
         req.status = "submitted", page.rev = req.rev, ~Interested(u)
  PROVE  IInv'
<1>1. req \in Request
  BY Typed DEF IInv
<1>2. /\ req' = [req EXCEPT !.status = "approved", !.approver = u, !.approvedRev = req.rev]
      /\ receipts' = receipts /\ pages' = pages /\ live' = live
      /\ waivedBy' = waivedBy /\ waivedOn' = waivedOn /\ seen' = page
  BY DEF Approved
<1>3. /\ req' \in Request /\ req'.status = "approved" /\ req'.rev = req.rev
      /\ req'.approver = u /\ req'.approvedRev = req'.rev
      /\ Page(req', receipts) = Page(req, receipts)
  BY <1>1, <1>2 DEF Request, Page, Status
<1>4. PagesOK'
  BY <1>2, <1>3, MoveKeepsPages DEF IInv
<1>5. seen' = Page(req', receipts')
  BY <1>2, <1>3 DEF IInv, PagesOK
<1>6. TypeOK'
  BY <1>2, <1>3 DEF Approved, IInv, TypeOK, Request, roles
<1>. QED BY <1>2, <1>3, <1>4, <1>5, <1>6
         DEF IInv, NothingYet, ApprovalOK, WaiverOK, PaymentOK, Interested, Same

LEMMA WaiveKeeps == ASSUME IInv, NEW u \in User, WaiveReceipt(u) PROVE IInv'
<1>1. /\ UNCHANGED <<req, receipts, live, pages, seen>> /\ waivedBy' = u
      /\ waivedOn' = Page(req, receipts) /\ ~Interested(u)
      /\ req.status \in {"submitted", "approved"}
  BY DEF WaiveReceipt
<1>2. TypeOK'
  BY <1>1, Typed, PageTyped DEF WaiveReceipt, IInv, TypeOK, roles
<1>. QED BY <1>1, <1>2 DEF IInv, PagesOK, NothingYet, ApprovalOK, WaiverOK, PaymentOK, Interested, Same

LEMMA PaymentKeeps ==
  ASSUME IInv, NEW u \in User, RecordPayment(u) \/ ReversePayment(u)
  PROVE  IInv'
<1>1. req \in Request
  BY Typed DEF IInv
<1>2. /\ UNCHANGED <<receipts, waivedBy, pages, seen, waivedOn>>
      /\ \/ /\ req.status = "approved" /\ req' = [req EXCEPT !.status = "paid"]
            /\ live' = u /\ ~Same(u, req.approver)
            /\ waivedBy # NoUser \/ receipts > 0
         \/ req.status = "paid" /\ req' = [req EXCEPT !.status = "approved"] /\ live' = NoUser
  BY DEF RecordPayment, ReversePayment, MayRecord, history
<1>3. /\ req' \in Request /\ req'.rev = req.rev
      /\ req'.approver = req.approver /\ req'.approvedRev = req.approvedRev
      /\ Page(req', receipts) = Page(req, receipts)
      /\ \/ req.status = "approved" /\ req'.status = "paid" /\ live' = u
         \/ req.status = "paid" /\ req'.status = "approved" /\ live' = NoUser
  <2>1. PICK to \in {"approved", "paid"} :
          /\ req' = [req EXCEPT !.status = to]
          /\ \/ req.status = "approved" /\ to = "paid" /\ live' = u
             \/ req.status = "paid" /\ to = "approved" /\ live' = NoUser
    BY <1>2
  <2>2. to \in Status
    BY DEF Status
  <2>. QED BY <1>1, <2>1, <2>2 DEF Request, Page
<1>4. PagesOK'
  BY <1>2, <1>3, MoveKeepsPages DEF IInv
<1>5. TypeOK'
  BY <1>2, <1>3 DEF RecordPayment, ReversePayment, IInv, TypeOK, Request, roles
<1>6. ApprovalOK' /\ WaiverOK'
  BY <1>2, <1>3 DEF IInv, ApprovalOK, WaiverOK, Interested, Same
<1>7. PaymentOK' /\ NothingYet'
  BY <1>2, <1>3 DEF IInv, PaymentOK, NothingYet, Same
<1>. QED BY <1>4, <1>5, <1>6, <1>7 DEF IInv

LEMMA RolesKeep == ASSUME IInv, RolesChange \/ SetChargeable \/ UNCHANGED vars PROVE IInv'
<1>1. UNCHANGED <<req, receipts, live, waivedBy, pages, seen, waivedOn>>
  BY DEF RolesChange, SetChargeable, vars, guarded, roles, history
<1>2. /\ seat' \subseteq SeatUser /\ pay' \subseteq PayUser
      /\ filer' \in BOOLEAN /\ chargeable' \in BOOLEAN /\ first' \in BOOLEAN
  BY DEF RolesChange, SetChargeable, vars, guarded, roles, history, IInv, TypeOK
<1>3. TypeOK'
  BY <1>1, <1>2 DEF IInv, TypeOK
<1>. QED BY <1>1, <1>3
         DEF IInv, PagesOK, NothingYet, ApprovalOK, WaiverOK, PaymentOK, Page, Interested, Same

(* The ways a request changes: every action is one of these.               *)
LEMMA StepShape ==
  ASSUME TypeOK, [Step]_vars
  PROVE  \/ SaveDraft
         \/ \E page \in pages : UpdateRequest(page) \/ Submit(page)
         \/ \E n \in Nat : n # receipts /\ ChangeReceipts(n)
         \/ \E to \in {"withdrawn", "returned", "not_approved", "voided"} :
              req.status # "none" /\ to \in Moves[req.status] /\ Left(to)
         \/ \E u \in User, page \in pages :
              /\ Approved(u, page) /\ req.status = "submitted"
              /\ page.rev = req.rev /\ ~Interested(u)
         \/ \E u \in User : WaiveReceipt(u) \/ RecordPayment(u) \/ ReversePayment(u)
         \/ RolesChange \/ SetChargeable \/ UNCHANGED vars
<1>1. CASE SaveDraft \/ RolesChange \/ SetChargeable \/ UNCHANGED vars
  BY <1>1
<1>2. CASE AttachReceipt
  BY <1>2 DEF AttachReceipt, TypeOK
<1>3. CASE DetachReceipt
  BY <1>3 DEF DetachReceipt, TypeOK
<1>4. CASE \E page \in pages : UpdateRequest(page) \/ Submit(page)
  BY <1>4
<1>5. ASSUME NEW u \in User, NEW page \in pages, ApproveSeat(u, page) \/ ApproveOverride(u, page)
      PROVE  /\ Approved(u, page) /\ req.status = "submitted"
             /\ page.rev = req.rev /\ ~Interested(u)
  BY <1>5 DEF ApproveSeat, ApproveOverride, Approvers
<1>6. ASSUME NEW u \in User, NEW page \in pages, NEW to \in {"returned", "not_approved"},
             Return(u, page, to)
      PROVE  req.status # "none" /\ to \in Moves[req.status] /\ Left(to)
  BY <1>6 DEF Return, Moves, Status
<1>7. ASSUME NEW u \in User, Withdraw(u)
      PROVE  req.status # "none" /\ "withdrawn" \in Moves[req.status] /\ Left("withdrawn")
  BY <1>7 DEF Withdraw, Moves, Status
<1>8. ASSUME NEW u \in User, Void(u)
      PROVE  req.status # "none" /\ "voided" \in Moves[req.status] /\ Left("voided")
  BY <1>8 DEF Void, Moves, Status
<1>9. CASE \E u \in User : WaiveReceipt(u) \/ RecordPayment(u) \/ ReversePayment(u)
  BY <1>9
<1>10. CASE \E u \in User, page \in pages :
              \/ ApproveSeat(u, page) \/ ApproveOverride(u, page)
              \/ \E to \in {"returned", "not_approved"} : Return(u, page, to)
  BY <1>5, <1>6, <1>10
<1>11. CASE \E u \in User : Withdraw(u) \/ Void(u)
  BY <1>7, <1>8, <1>11
<1>. QED BY <1>1, <1>2, <1>3, <1>4, <1>9, <1>10, <1>11 DEF Step

LEMMA StepKeepsIInv == IInv /\ [Step]_vars => IInv'
<1>. SUFFICES ASSUME IInv, [Step]_vars PROVE IInv'
  OBVIOUS
<1>1. ASSUME NEW to \in {"withdrawn", "returned", "not_approved", "voided"},
             req.status # "none", to \in Moves[req.status], Left(to)
      PROVE  IInv'
  <2>1. req.status # "paid"
    BY <1>1 DEF Moves, Status
  <2>. QED BY <1>1, <2>1, LeavingKeeps
<1>2. ASSUME NEW u \in User, WaiveReceipt(u) \/ RecordPayment(u) \/ ReversePayment(u)
      PROVE  IInv'
  BY <1>2, WaiveKeeps, PaymentKeeps
<1>3. ASSUME NEW page \in pages, UpdateRequest(page) \/ Submit(page)
      PROVE  IInv'
  BY <1>3, EditKeeps, SubmitKeeps
<1>. QED BY <1>1, <1>2, <1>3, StepShape, SaveDraftKeeps, ReceiptsKeep, ApprovedKeeps, RolesKeep DEF IInv

(* The inductive invariant holds (drizzle/0073).                           *)
THEOREM IInvHolds == RequestSpec => []IInv
<1>. QED BY InitIInv, StepKeepsIInv, PTL DEF RequestSpec

(* Every variable keeps its type: no request has more receipts than it may *)
(* or an approver who is nobody (drizzle/0073).                            *)
THEOREM Typing == RequestSpec => []TypeOK
<1>1. IInv => TypeOK
  BY DEF IInv
<1>. QED BY <1>1, IInvHolds, PTL

(* What is approved, and later paid, is what the approver was shown:       *)
(* presby_reimbursement_approve compares revisions only.                   *)
THEOREM PaidAsSeenHolds == RequestSpec => []PaidAsSeen
<1>1. IInv => PaidAsSeen
  BY DEF IInv, ApprovalOK, PaidAsSeen
<1>. QED BY <1>1, IInvHolds, PTL

(* Paid means one live payment, by another person than the approver, who   *)
(* is neither the creator nor the payee.                                   *)
THEOREM MoneyMovedHolds == RequestSpec => []MoneyMoved
<1>1. IInv => MoneyMoved
  <2>. SUFFICES ASSUME IInv PROVE MoneyMoved
    OBVIOUS
  <2>1. (req.status = "paid") = (live # NoUser)
    BY DEF IInv, PaymentOK
  <2>. QED BY <2>1 DEF IInv, ApprovalOK, PaymentOK, MoneyMoved
<1>. QED BY <1>1, IInvHolds, PTL

(* Money leaves with a receipt, or with a waiver of just what the request  *)
(* says (presby_reimbursement_waive_receipt, the update guard).            *)
THEOREM ReceiptOrWaiverHolds == RequestSpec => []ReceiptOrWaiver
<1>1. IInv => ReceiptOrWaiver
  BY DEF IInv, WaiverOK, PaymentOK, ReceiptOrWaiver
<1>. QED BY <1>1, IInvHolds, PTL

(* Two persons with the key are enough for an approved request to be paid: *)
(* the rule of presby_reimbursement_record_payment never refuses them all. *)
THEOREM SomebodyMayPayHolds == RequestSpec => []SomebodyMayPay
<1>1. IInv => SomebodyMayPay
  <2>. SUFFICES ASSUME IInv, req.status = "approved",
                       NEW u \in pay, NEW v \in pay, ~Same(u, v)
                PROVE  \E w \in pay : MayRecord(w)
    BY DEF SomebodyMayPay
  <2>1. pay \subseteq User
    BY DEF IInv, TypeOK
  <2>2. PICK x \in pay : ~Same(x, req.approver)
    BY <2>1 DEF Same
  <2>3. CASE \E h \in pay : ~Same(h, x) /\ ~Same(h, req.approver) /\ ~Interested(h)
    BY <2>3 DEF MayRecord
  <2>4. CASE ~\E h \in pay : ~Same(h, x) /\ ~Same(h, req.approver) /\ ~Interested(h)
    BY <2>2, <2>4 DEF MayRecord
  <2>. QED BY <2>3, <2>4
<1>. QED BY <1>1, IInvHolds, PTL

LEMMA StepIsGuarded ==
  ASSUME IInv, [Step]_vars
  PROVE  [Next]_guarded
<1>1. CASE SaveDraft
  BY <1>1 DEF SaveDraft, Insert, Next
<1>2. ASSUME NEW page \in pages, UpdateRequest(page) PROVE Edit
  BY <1>2 DEF UpdateRequest, Edit
<1>3. ASSUME NEW page \in pages, Submit(page) PROVE Move("submitted")
  BY <1>3 DEF Submit, Move, Moves, Status, Editable, WaiverAfter
<1>4. ASSUME NEW n \in Nat, n # receipts, ChangeReceipts(n) PROVE Attachment
  BY <1>4 DEF ChangeReceipts, Attachment
<1>5. ASSUME NEW to \in {"withdrawn", "returned", "not_approved", "voided"},
             to \in Moves[req.status], Left(to)
      PROVE  to \in Status /\ Move(to)
  BY <1>5 DEF Left, Move, Status
<1>6. ASSUME NEW u \in User, NEW page \in pages, Approved(u, page),
             req.status = "submitted", ~Interested(u)
      PROVE  Approval(u)
  BY <1>6 DEF Approved, Approval
<1>7. ASSUME NEW u \in User, WaiveReceipt(u) PROVE Waiver(u)
  BY <1>7 DEF WaiveReceipt, Waiver
<1>8. ASSUME NEW u \in User, RecordPayment(u) PROVE Payment(u)
  BY <1>8 DEF RecordPayment, Payment, MayRecord, IInv, PaymentOK
<1>9. ASSUME NEW u \in User, ReversePayment(u) PROVE Reversal
  BY <1>9 DEF ReversePayment, Reversal
<1>10. CASE RolesChange \/ SetChargeable \/ UNCHANGED vars
  BY <1>10 DEF RolesChange, SetChargeable, vars, guarded
<1>11. "submitted" \in Status
  BY DEF Status
<1>. QED BY <1>1, <1>2, <1>3, <1>4, <1>5, <1>6, <1>7, <1>8, <1>9, <1>10, <1>11, StepShape
         DEF IInv, Next

(* Every step of the functions is one the triggers accept: the functions   *)
(* of drizzle/0073 implement the guards of drizzle/0073.                   *)
THEOREM GuardsKeptHolds == RequestSpec => GuardsKept
<1>1. Start => Init
  BY DEF Start
<1>2. IInv /\ [Step]_vars => [Next]_guarded
  BY StepIsGuarded
<1>. QED BY <1>1, <1>2, IInvHolds, PTL DEF RequestSpec, GuardsKept, Spec
===============================================================================

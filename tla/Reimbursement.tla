----------------------------- MODULE Reimbursement -----------------------------
(***************************************************************************)
(* The life of one expense request through the functions of drizzle/0073   *)
(* that lib/reimbursement calls.  Each locks the request's row, so it is   *)
(* one step; what it is asked to do was decided on a page shown earlier,   *)
(* and seats, keys and settings change between any two steps.              *)
(***************************************************************************)
EXTENDS ReimbursementGuards

CONSTANTS
  SeatUser,     \* logins that may get a chair or leader seat on the group
  PayUser,      \* logins that may get reimbursement.pay
  MaxRev        \* bound: revisions of the request

ASSUME RoleAssumption == SeatUser \subseteq User /\ PayUser \subseteq User
ASSUME RevAssumption == MaxRev \in Nat \ {0}

VARIABLES
  seat,       \* who holds a seat now: presby_reimbursement__is_seat
  pay,        \* who holds reimbursement.pay now: presby_reimbursement__key_holders
  filer,      \* the creator may file: presby_reimbursement__is_eligible_requester
  chargeable, \* the group is chargeable
  first,      \* first_submitted_at is set
  pages,      \* history: the request as it was ever shown
  seen,       \* history: the page the approver in force acted on
  waivedOn    \* history: what the request said when its receipt was waived

vars == <<guarded, seat, pay, filer, chargeable, first, pages, seen, waivedOn>>
roles == <<seat, pay, filer, chargeable>>
history == <<pages, seen, waivedOn>>

Page(r, n) == [rev |-> r.rev, content |-> r.content, receipts |-> n]
NoPage == [rev |-> 0, content |-> NoRequest.content, receipts |-> 0]

(* presby_reimbursement__eligible_approvers                                *)
Approvers == {u \in seat : ~Interested(u)}

-------------------------------------------------------------------------------
(* The creator *)

SaveDraft ==
  /\ req.status = "none" /\ filer
  /\ chargeable
  /\ \E c \in Content, none \in BOOLEAN :
       req' = [NoRequest EXCEPT !.status = "draft", !.rev = 1, !.content = c, !.claimed = none]
  /\ pages' = {Page(req', 0)}
  /\ UNCHANGED <<receipts, live, waivedBy, roles, first, seen, waivedOn>>

(* presby_reimbursement_update_request: on the revision the creator saw.   *)
(* Saving what is there already changes nothing and counts nothing.        *)
UpdateRequest(page) ==
  /\ req.status \in Editable
  /\ page.rev = req.rev
  /\ \E c \in Content, none \in BOOLEAN :
       /\ <<c, none>> # <<req.content, req.claimed>>
       /\ req.rev < MaxRev
       /\ req' = [req EXCEPT !.content = c, !.claimed = none, !.rev = @ + 1]
  /\ pages' = pages \cup {Page(req', receipts)}
  /\ UNCHANGED <<receipts, live, waivedBy, roles, first, seen, waivedOn>>

(* Slips: the receipts are not counted against their limit; the change is  *)
(* not counted in the revision.                                            *)
ChangeReceiptsUnlimited(n) ==
  /\ req.status \in Editable
  /\ req.rev < MaxRev
  /\ receipts' = n
  /\ req' = [req EXCEPT !.rev = @ + 1]
  /\ pages' = pages \cup {Page(req', n)}
  /\ UNCHANGED <<live, waivedBy, roles, first, seen, waivedOn>>

ChangeReceiptsUncounted(n) ==
  /\ req.status \in Editable /\ n \in 0..MaxReceipts
  /\ receipts' = n
  /\ req' = req
  /\ pages' = pages \cup {Page(req, n)}
  /\ UNCHANGED <<live, waivedBy, roles, first, seen, waivedOn>>

(* presby_reimbursement_attach_receipt, presby_reimbursement_detach_receipt*)
ChangeReceipts(n) ==
  /\ req.status \in Editable /\ n \in 0..MaxReceipts
  /\ req.rev < MaxRev
  /\ receipts' = n
  /\ req' = [req EXCEPT !.rev = @ + 1]
  /\ pages' = pages \cup {Page(req', n)}
  /\ UNCHANGED <<live, waivedBy, roles, first, seen, waivedOn>>

AttachReceipt == ChangeReceipts(receipts + 1)
DetachReceipt == receipts > 0 /\ ChangeReceipts(receipts - 1)

Submit(page) ==
  /\ req.status \in Editable
  /\ page.rev = req.rev
  /\ filer
  /\ req.claimed \/ receipts > 0
  /\ first \/ chargeable
  /\ req' = Moved(req, "submitted")
  /\ first' = TRUE
  /\ UNCHANGED <<receipts, live, waivedBy, roles, history>>

(* What a move that ends an approval does to what was kept of it.          *)
Left(to) ==
  /\ req' = Moved(req, to)
  /\ waivedBy' = WaiverAfter(to)
  /\ seen' = NoPage
  /\ waivedOn' = IF WaiverAfter(to) = NoUser THEN NoPage ELSE waivedOn
  /\ UNCHANGED <<receipts, live, roles, first, pages>>

(* presby_reimbursement_withdraw: a draft is the creator's alone.          *)
Withdraw(u) ==
  /\ u = Creator \/ (req.status # "draft" /\ Same(u, Payee))
  /\ req.status \in {"draft", "submitted", "returned", "not_approved", "approved"}
  /\ Left("withdrawn")

-------------------------------------------------------------------------------
(* Approval.  page: what the approver was looking at.                      *)

Approved(u, page) ==
  /\ req' = [req EXCEPT !.status = "approved", !.approver = u, !.approvedRev = req.rev]
  /\ seen' = page
  /\ UNCHANGED <<receipts, live, waivedBy, roles, first, pages, waivedOn>>

(* presby_reimbursement_approve: from a seat on the group.                 *)
ApproveSeat(u, page) ==
  /\ req.status = "submitted"
  /\ page.rev = req.rev
  /\ u \in Approvers
  /\ Approved(u, page)

(* A slip: neither an interest nor the lack of a second payer refuses.     *)
OverrideAny(u, page) ==
  /\ u \in pay
  /\ req.status = "submitted"
  /\ page.rev = req.rev
  /\ Approvers = {}
  /\ Approved(u, page)

(* The treasurer's approval, when no seat can approve.                     *)
ApproveOverride(u, page) ==
  /\ u \in pay
  /\ req.status = "submitted"
  /\ page.rev = req.rev
  /\ Approvers = {}
  /\ ~Interested(u)
  /\ \E h \in pay : ~Same(h, u)
  /\ Approved(u, page)

(* presby_reimbursement_return: from submitted the seats, or a payer when  *)
(* there is none; from approved a payer, and only for more information.    *)
Return(u, page, to) ==
  /\ page.rev = req.rev
  /\ ~Interested(u)
  /\ \/ /\ req.status = "submitted" /\ to \in {"returned", "not_approved"}
        /\ u \in Approvers \/ (u \in pay /\ Approvers = {})
     \/ req.status = "approved" /\ to = "returned" /\ u \in pay
  /\ Left(to)

-------------------------------------------------------------------------------
(* The treasury *)

Void(u) ==
  /\ u \in pay
  /\ req.status \in {"submitted", "returned", "approved"}
  /\ Left("voided")

(* presby_reimbursement_waive_receipt                                      *)
WaiveReceipt(u) ==
  /\ u \in pay
  /\ req.status \in {"submitted", "approved"} /\ waivedBy = NoUser
  /\ ~Interested(u)
  /\ receipts = 0
  /\ waivedBy' = u
  /\ waivedOn' = Page(req, receipts)
  /\ UNCHANGED <<req, receipts, live, roles, first, pages, seen>>

(* A slip: whoever is interested may never pay.                            *)
MayRecordNobodyElse(u) == ~Same(u, req.approver) /\ ~Interested(u)

(* Who may record the payment: not the approver; the creator or the payee  *)
(* only when no other payer could.                                         *)
MayRecord(u) ==
  /\ ~Same(u, req.approver)
  /\ Interested(u) => ~\E h \in pay : ~Same(h, u) /\ ~Same(h, req.approver) /\ ~Interested(h)

(* presby_reimbursement_record_payment                                     *)
RecordPayment(u) ==
  /\ u \in pay
  /\ req.status = "approved"
  /\ MayRecord(u)
  /\ waivedBy # NoUser \/ receipts > 0
  /\ live' = u
  /\ req' = [req EXCEPT !.status = "paid"]
  /\ UNCHANGED <<receipts, waivedBy, roles, first, history>>

(* A slip: the payment row is reversed and the request stays paid.         *)
ReversePaymentOnly(u) ==
  /\ u \in pay /\ req.status = "paid" /\ live # NoUser
  /\ live' = NoUser
  /\ UNCHANGED <<req, receipts, waivedBy, roles, first, history>>

(* presby_reimbursement_reverse_payment                                    *)
ReversePayment(u) ==
  /\ u \in pay
  /\ req.status = "paid" /\ live # NoUser
  /\ live' = NoUser
  /\ req' = [req EXCEPT !.status = "approved"]
  /\ UNCHANGED <<receipts, waivedBy, roles, first, history>>

-------------------------------------------------------------------------------
(* Offices begin and end, keys are granted and revoked, the creator's      *)
(* standing changes (external); presby_reimbursement_set_chargeable.       *)

RolesChange ==
  /\ \/ \E u \in SeatUser : seat' \in {seat \cup {u}, seat \ {u}} /\ UNCHANGED <<pay, filer>>
     \/ \E u \in PayUser : pay' \in {pay \cup {u}, pay \ {u}} /\ UNCHANGED <<seat, filer>>
     \/ filer' = ~filer /\ UNCHANGED <<seat, pay>>
  /\ UNCHANGED <<guarded, chargeable, first, history>>

SetChargeable ==
  /\ chargeable' = ~chargeable
  /\ UNCHANGED <<guarded, seat, pay, filer, first, history>>

-------------------------------------------------------------------------------
Start ==
  /\ Init
  /\ seat \in SUBSET SeatUser /\ pay \in SUBSET PayUser
  /\ filer = TRUE /\ chargeable = TRUE
  /\ first = FALSE
  /\ pages = {} /\ seen = NoPage /\ waivedOn = NoPage

Step ==
  \/ SaveDraft \/ AttachReceipt \/ DetachReceipt
  \/ \E page \in pages : UpdateRequest(page) \/ Submit(page)
  \/ \E u \in User, page \in pages :
       \/ ApproveSeat(u, page) \/ ApproveOverride(u, page)
       \/ \E to \in {"returned", "not_approved"} : Return(u, page, to)
  \/ \E u \in User : \/ Withdraw(u) \/ Void(u) \/ WaiveReceipt(u)
                     \/ RecordPayment(u) \/ ReversePayment(u)
  \/ RolesChange \/ SetChargeable

RequestSpec == Start /\ [][Step]_vars

-------------------------------------------------------------------------------
(* Properties *)

PageSet == [rev: 0..MaxRev, content: Content, receipts: 0..MaxReceipts]

(* Every variable has its type, the receipts within their limit            *)
(* (reimbursement_requests, reimbursement_attachments).                    *)
TypeOK ==
  /\ req \in [status: Status, rev: 0..MaxRev, content: Content, claimed: BOOLEAN,
              approver: User \cup {NoUser}, approvedRev: 0..MaxRev]
  /\ receipts \in 0..MaxReceipts
  /\ live \in User \cup {NoUser} /\ waivedBy \in User \cup {NoUser}
  /\ seat \subseteq SeatUser /\ pay \subseteq PayUser
  /\ filer \in BOOLEAN /\ chargeable \in BOOLEAN /\ first \in BOOLEAN
  /\ pages \subseteq PageSet /\ seen \in PageSet /\ waivedOn \in PageSet

(* What is approved, and later paid, is what the approver was looking at:  *)
(* amount, payee, purpose and receipts, however old the page was.          *)
PaidAsSeen ==
  req.status \in {"approved", "paid"} =>
    seen = Page(req, receipts) /\ req.approvedRev = req.rev

(* A request is paid exactly while it has a live payment, through any      *)
(* number of payments and reversals, and the one who recorded it is        *)
(* another person than the one whose approval is in force, who is neither  *)
(* the creator nor the payee.                                              *)
MoneyMoved ==
  /\ (req.status = "paid") = (live # NoUser)
  /\ live # NoUser => ~Same(live, req.approver)
  /\ req.status \in {"approved", "paid"} => req.approver \in User /\ ~Interested(req.approver)

(* Money leaves with a receipt, or with a waiver given for just what the   *)
(* request says: a waiver does not survive a round of corrections.         *)
ReceiptOrWaiver ==
  /\ req.status = "paid" => receipts > 0 \/ waivedBy # NoUser
  /\ waivedBy # NoUser => waivedOn = Page(req, receipts) /\ ~Interested(waivedBy)

(* An approved request with its receipt is never stuck while two persons   *)
(* hold the key to pay: one of them may.                                   *)
SomebodyMayPay ==
  /\ req.status = "approved" /\ (receipts > 0 \/ waivedBy # NoUser)
  /\ \E u, v \in pay : ~Same(u, v)
  => \E u \in pay : MayRecord(u)

(* The functions never run into the triggers: what they refuse with an     *)
(* outcome is all the triggers would refuse with an exception.             *)
GuardsKept == Spec

===============================================================================

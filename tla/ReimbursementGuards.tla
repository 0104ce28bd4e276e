-------------------------- MODULE ReimbursementGuards --------------------------
(***************************************************************************)
(* One expense request as the triggers of drizzle/0073 keep it, on every   *)
(* connection: which status follows which, what freezes, what a move       *)
(* clears, and who may stand behind an approval and a payment.             *)
(***************************************************************************)
EXTENDS Naturals, FiniteSets

CONSTANTS
  User,         \* logins
  Party,        \* [User -> the person behind it]: presby_reimbursement__same_party
  Creator,      \* created_by_user
  Payee,        \* the person paid, or NoUser for a vendor
  NoUser,
  Content,      \* what the editable fields may say
  MaxReceipts   \* live receipts of a request: 5 in the code

ASSUME UserAssumption == Creator \in User /\ Payee \in User \cup {NoUser} /\ NoUser \notin User
ASSUME ContentAssumption == Content # {}
ASSUME ReceiptAssumption == MaxReceipts \in Nat

VARIABLES
  req,      \* reimbursement_requests: the row
  receipts, \* live reimbursement_attachments
  live,     \* who recorded the live payment, NoUser if there is none
  waivedBy  \* receipt_waived_by_user, NoUser if not waived

guarded == <<req, receipts, live, waivedBy>>

Status == {"none", "draft", "submitted", "returned", "not_approved", "approved", "paid", "withdrawn", "voided"}
Editable == {"draft", "returned"}

(* The transition table of presby_reimbursement_request_update_guard.      *)
Moves ==
  [s \in Status |->
    CASE s = "draft" -> {"submitted", "withdrawn"}
      [] s = "submitted" -> {"approved", "returned", "not_approved", "withdrawn", "voided"}
      [] s = "returned" -> {"submitted", "withdrawn", "voided"}
      [] s = "not_approved" -> {"withdrawn"}
      [] s = "approved" -> {"paid", "returned", "withdrawn", "voided"}
      [] s = "paid" -> {"approved"}
      [] OTHER -> {}]

Same(u, v) == u \in User /\ v \in User /\ Party[u] = Party[v]

(* The creator or the one who is paid.                                     *)
Interested(u) == Same(u, Creator) \/ Same(u, Payee)

NoRequest == [status |-> "none", rev |-> 0, content |-> CHOOSE c \in Content : TRUE,
              claimed |-> FALSE, approver |-> NoUser, approvedRev |-> 0]

Init ==
  /\ req = NoRequest
  /\ receipts = 0
  /\ live = NoUser
  /\ waivedBy = NoUser

Insert ==
  /\ req.status = "none"
  /\ \E c \in Content, none \in BOOLEAN :
       req' = [NoRequest EXCEPT !.status = "draft", !.rev = 1, !.content = c, !.claimed = none]
  /\ UNCHANGED <<receipts, live, waivedBy>>

(* The editable fields (claimed: no_receipt_claimed), and the revision.    *)
Edit ==
  /\ req.status \in Editable
  /\ \E c \in Content, none \in BOOLEAN :
       req' = [req EXCEPT !.content = c, !.claimed = none, !.rev = @ + 1]
  /\ UNCHANGED <<receipts, live, waivedBy>>

Attachment ==
  /\ req.status \in Editable
  /\ receipts' \in 0..MaxReceipts /\ receipts' # receipts
  /\ req' = [req EXCEPT !.rev = @ + 1]
  /\ UNCHANGED <<live, waivedBy>>

(* What a move to another status leaves of the approval and the waiver.    *)
Moved(r, to) ==
  [r EXCEPT !.status = to,
            !.approver = IF to \in {"approved", "paid"} THEN @ ELSE NoUser,
            !.approvedRev = IF to \in {"approved", "paid"} THEN @ ELSE 0]

(* A slip: a receipt waived in one round stays waived in the next.         *)
WaiverKept(to) == waivedBy

WaiverAfter(to) == IF to \in {"submitted", "approved", "paid"} THEN waivedBy ELSE NoUser

Move(to) ==
  /\ to \in Moves[req.status] \ {"approved", "paid"}
  /\ to = "submitted" => req.claimed \/ receipts > 0
  /\ req' = Moved(req, to)
  /\ waivedBy' = WaiverAfter(to)
  /\ UNCHANGED <<receipts, live>>

(* An approval names its approver, who is not interested in the request,   *)
(* and the revision in force.                                              *)
Approval(u) ==
  /\ req.status = "submitted" /\ ~Interested(u)
  /\ req' = [req EXCEPT !.status = "approved", !.approver = u, !.approvedRev = req.rev]
  /\ UNCHANGED <<receipts, live, waivedBy>>

Waiver(u) ==
  /\ req.status \in {"submitted", "approved"} /\ waivedBy = NoUser
  /\ waivedBy' = u
  /\ UNCHANGED <<req, receipts, live>>

(* presby_reimbursement_payment_write_guard; the request is paid in the    *)
(* same transaction (presby_reimbursement_status_payment_consistent).      *)
Payment(u) ==
  /\ req.status = "approved" /\ live = NoUser
  /\ waivedBy # NoUser \/ receipts > 0
  /\ ~Same(u, req.approver)
  /\ live' = u
  /\ req' = [req EXCEPT !.status = "paid"]
  /\ UNCHANGED <<receipts, waivedBy>>

Reversal ==
  /\ req.status = "paid" /\ live # NoUser
  /\ live' = NoUser
  /\ req' = [req EXCEPT !.status = "approved"]
  /\ UNCHANGED <<receipts, waivedBy>>

Next ==
  \/ Insert \/ Edit \/ Attachment \/ Reversal
  \/ \E to \in Status : Move(to)
  \/ \E u \in User : Approval(u) \/ Waiver(u) \/ Payment(u)

Spec == Init /\ [][Next]_guarded

===============================================================================

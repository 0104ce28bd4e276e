------------------------------ MODULE SignInLinks ------------------------------
(***************************************************************************)
(* Which account signs in as which person: the sign-in invitations an      *)
(* organization sends, their acceptance by token or in place, and the      *)
(* connection of a proven account at sign-in (drizzle/0065, its checks as  *)
(* re-created by 0066), beside everything they depend on that others write *)
(* meanwhile: the person's addresses and memberships and the account's own *)
(* address.                                                                *)
(*                                                                         *)
(* Issue takes the organization's lock, resend and revoke also the         *)
(* invitation's, acceptance also the account's and the person's, before    *)
(* they read what they decide on: each is one step.  Connection reads,     *)
(* locks its organization, account and person, and reads again, statement  *)
(* by statement: it has a step for what it reads first, one for each half  *)
(* of its checks under the locks, and one for the commit.  Its locks hold  *)
(* back whoever needs one of them, and nobody else.  Where an edit of      *)
(* others may take a lock that is not shown here, it only has more         *)
(* behaviours than the code.  One connection of an account runs at a time. *)
(*                                                                         *)
(* Out of the model, each a further refusal: the sender's own permissions, *)
(* the limits per day and the cooldown.  People are neither merged nor     *)
(* dead (nothing in the application writes either).                        *)
(***************************************************************************)
EXTENDS Naturals, FiniteSets, Sequences

CONSTANTS Account, Person, Org, Address,
          NoAccount, NoAddress,
          Enrolled,     \* the accounts with a second factor
          Connects,     \* managed organizations with org_portal.sign_in_connect
          MaxResends,   \* of one chain
          MaxSent,      \* bound on the invitations
          MaxEdits      \* bound on what others write

VARIABLES account,  \* users: address (none before it exists), proof, is_active
          link,     \* people.user_id
          emails,   \* the active addresses of a person
          main,     \* the one the credential goes to
          member,   \* memberships
          seat,     \* people whose standing bears authority
          sent,     \* account_invitations, in order
          trying,   \* an account's connection: the person and organization it found, its phase
          edits

records == <<emails, main, member, seat>>
vars == <<account, link, records, sent, trying, edits>>

Membership == {"none", "member", "visitor", "ended"}
Invitation ==
  [org: Org, person: Person, to: Address, count: 0 .. MaxResends, expired: BOOLEAN,
   state: {"open", "accepted", "revoked", "superseded", "blocked"}]
NoCandidate == {}
Phase == {"read", "locked", "sole"}

ASSUME SignInAssumption ==
  /\ NoAccount \notin Account /\ NoAddress \notin Address
  /\ Enrolled \subseteq Account /\ Connects \subseteq Org
  /\ MaxResends \in Nat /\ MaxSent \in Nat /\ MaxEdits \in Nat
--------------------------------------------------------------------------------
LiveAt(p) == {o \in Org : member[p][o] \in {"member", "visitor"}}

\* presby__person_sign_in_standing: any row at another organization refuses.
Refused(p, o) == o \notin LiveAt(p) \/ \E b \in Org \ {o} : member[p][b] # "none"

Exists(u) == account[u].email # NoAddress
Taken(a) == \E u \in Account : account[u].email = a
LinkedTo(u) == {p \in Person : link[p] = u}

Open(i) == sent[i].state = "open"
Alive(i) == Open(i) /\ ~sent[i].expired
OpenFor(o, p) == {i \in DOMAIN sent : sent[i].org = o /\ sent[i].person = p /\ Open(i)}

\* The address is on the record of somebody else of this organization.
Shared(o, p) == \E q \in Person \ {p} : o \in LiveAt(q) /\ main[p] \in emails[q]

\* presby_sign_in__check.
MaySend(o, p) ==
  /\ ~Refused(p, o) /\ link[p] = NoAccount
  /\ main[p] # NoAddress /\ ~Shared(o, p)
  /\ Len(sent) < MaxSent

\* The rows a connection has locked.
Holds(u, p, o) == <<p, o, "locked">> \in trying[u] \/ <<p, o, "sole">> \in trying[u]
OrgFree(o) == \A u \in Account, p \in Person : ~Holds(u, p, o)
PersonFree(p) == \A u \in Account, o \in Org : ~Holds(u, p, o)
AccountFree(u) == \A p \in Person, o \in Org : ~Holds(u, p, o)

Letter(o, p, count) ==
  [org |-> o, person |-> p, to |-> main[p], count |-> count, expired |-> FALSE, state |-> "open"]
--------------------------------------------------------------------------------
Init ==
  /\ account = [u \in Account |-> [email |-> NoAddress, proven |-> FALSE, active |-> TRUE]]
  /\ link = [p \in Person |-> NoAccount]
  /\ emails = [p \in Person |-> {}] /\ main = [p \in Person |-> NoAddress]
  /\ member \in [Person -> [Org -> {"none", "member"}]]
  /\ \A p \in Person : Cardinality({o \in Org : member[p][o] = "member"}) = 1
  /\ seat = {} /\ sent = <<>> /\ edits = 0
  /\ trying = [u \in Account |-> NoCandidate]

Issue(o, p) ==
  /\ OrgFree(o) /\ OpenFor(o, p) = {} /\ MaySend(o, p)
  /\ sent' = Append(sent, Letter(o, p, 0))
  /\ UNCHANGED <<account, link, records, trying, edits>>

(* A resend goes to the address that is the main one today. *)
Resend(i) ==
  LET o == sent[i].org  p == sent[i].person IN
    /\ OrgFree(o) /\ Open(i) /\ sent[i].count < MaxResends /\ MaySend(o, p)
    /\ sent' = Append([sent EXCEPT ![i].state = "superseded"], Letter(o, p, sent[i].count + 1))
    /\ UNCHANGED <<account, link, records, trying, edits>>

Revoke(i) ==
  /\ OrgFree(sent[i].org) /\ Open(i)
  /\ sent' = [sent EXCEPT ![i].state = "revoked"]
  /\ UNCHANGED <<account, link, records, trying, edits>>

Expire(i) ==
  /\ Open(i) /\ ~sent[i].expired
  /\ sent' = [sent EXCEPT ![i].expired = TRUE]
  /\ UNCHANGED <<account, link, records, trying, edits>>
--------------------------------------------------------------------------------
(* Acceptance (presby__accept_invitation_core, purpose sign_in).           *)

(* A slip: the address is not looked up again. *)
PresentableAsSent(i) == Alive(i)

\* Alive, and the invited address is still on the person's record.
Presentable(i) == Alive(i) /\ sent[i].to \in emails[sent[i].person]

\* With the token: the account that has the invited address.
ByToken(u, i) == Exists(u) /\ account[u].email = sent[i].to /\ account[u].active
\* Without it (presby_accept_in_place): the account has proven the address.
InPlace(u, i) ==
  ByToken(u, i) /\ account[u].proven /\ (sent[i].person \in seat => u \in Enrolled)

(* A slip: only the people of this organization are asked for. *)
BlockedHere(i, u) ==
  LET p == sent[i].person IN
    \/ Refused(p, sent[i].org)
    \/ link[p] \notin {NoAccount, u}
    \/ \E q \in LinkedTo(u) \ {p} : member[q][sent[i].org] # "none"

\* The first reason of step 4, whichever it is.
Blocked(i, u) ==
  LET p == sent[i].person IN
    \/ Refused(p, sent[i].org)
    \/ link[p] \notin {NoAccount, u}
    \/ LinkedTo(u) \ {p} # {}

\* Acceptance waits for a connection that holds one of its rows.
Unheld(i, u) == OrgFree(sent[i].org) /\ AccountFree(u) /\ PersonFree(sent[i].person)

(* Whoever presents a live invitation uses it up: the person is linked, or *)
(* the invitation is blocked and says why. *)
Settle(i, u) ==
  /\ Unheld(i, u)
  /\ link' = IF Blocked(i, u) THEN link ELSE [link EXCEPT ![sent[i].person] = u]
  /\ sent' = [sent EXCEPT ![i].state = IF Blocked(i, u) THEN "blocked" ELSE "accepted"]
  /\ UNCHANGED <<records, trying, edits>>

Accept(i, u) ==
  /\ Presentable(i) /\ ByToken(u, i)
  /\ Settle(i, u)
  /\ UNCHANGED account

AcceptInPlace(i, u) ==
  /\ Presentable(i) /\ InPlace(u, i)
  /\ Settle(i, u)
  /\ UNCHANGED account

\* With a new account, which exists only if the acceptance stands.
AcceptAnew(i, u) ==
  /\ Presentable(i) /\ ~Exists(u) /\ ~Taken(sent[i].to)
  /\ Settle(i, u)
  /\ account' = IF Blocked(i, u) THEN account
                ELSE [account EXCEPT ![u] = [email |-> sent[i].to, proven |-> TRUE, active |-> TRUE]]
--------------------------------------------------------------------------------
(* Connection (presby_connect_signed_in_account).                          *)

Candidates(a) == {p \in Person : a \in emails[p] /\ LiveAt(p) # {}}
AwaitsAnswer(a) == \E i \in DOMAIN sent : Alive(i) /\ sent[i].to = a

\* Checks 1 to 4: of the account itself.
AccountFits(u) ==
  /\ Exists(u) /\ account[u].active /\ account[u].proven
  /\ LinkedTo(u) = {}
  /\ ~AwaitsAnswer(account[u].email)

\* Checks 5 to 11: of the person its address names.
PersonFits(u, p, o) ==
  /\ Candidates(account[u].email) = {p}
  /\ link[p] = NoAccount
  /\ LiveAt(p) = {o} /\ o \in Connects
  /\ ~Refused(p, o) /\ member[p][o] # "visitor"
  /\ p \in seat => u \in Enrolled

Goes(u, p, o, phase) ==
  /\ trying' = [trying EXCEPT ![u] = {<<p, o, phase>>}]
  /\ UNCHANGED <<account, link, records, sent, edits>>

ConnectRead(u, p, o) ==
  /\ trying[u] = NoCandidate
  /\ AccountFits(u) /\ PersonFits(u, p, o)
  /\ Goes(u, p, o, "read")

\* It locks what it found, and reads the account again.
ConnectLocked(u, p, o) ==
  /\ trying[u] = {<<p, o, "read">>} /\ OrgFree(o) /\ PersonFree(p)
  /\ AccountFits(u)
  /\ Goes(u, p, o, "locked")

\* The address must name the person that was locked, there and alone.
ConnectChecked(u, p, o) ==
  /\ trying[u] = {<<p, o, "locked">>}
  /\ PersonFits(u, p, o)
  /\ Goes(u, p, o, "sole")

\* The link is written, and everything committed with the audit row.
Connected(u, p, o, after) ==
  /\ trying[u] = {<<p, o, after>>}
  /\ link' = [link EXCEPT ![p] = u]
  /\ trying' = [trying EXCEPT ![u] = NoCandidate]
  /\ UNCHANGED <<account, records, sent, edits>>

(* A slip: what the first reading found is linked, without locks. *)
ConnectAsRead(u, p, o) == LinkedTo(u) = {} /\ link[p] = NoAccount /\ Connected(u, p, o, "read")

Connect(u, p, o) == Connected(u, p, o, "sole")

\* Declined under the locks, not given them in three seconds, or rolled back.
GiveUp(u) ==
  /\ trying[u] # NoCandidate
  /\ trying' = [trying EXCEPT ![u] = NoCandidate]
  /\ UNCHANGED <<account, link, records, sent, edits>>
--------------------------------------------------------------------------------
(* What others write meanwhile.                                            *)

Edit == edits < MaxEdits /\ edits' = edits + 1 /\ UNCHANGED <<link, trying>>

\* A provider's sign-in or an administrator makes an account.
SignUp(u, a, proven) ==
  /\ Edit /\ ~Exists(u) /\ ~Taken(a)
  /\ account' = [account EXCEPT ![u] = [email |-> a, proven |-> proven, active |-> TRUE]]
  /\ UNCHANGED <<records, sent>>

Prove(u) ==
  /\ Edit /\ AccountFree(u) /\ Exists(u) /\ account[u].active
  /\ account' = [account EXCEPT ![u].proven = TRUE]
  /\ UNCHANGED <<records, sent>>

\* A verified new address, unless another account has it.
ChangeEmail(u, a) ==
  /\ Edit /\ AccountFree(u) /\ Exists(u) /\ ~Taken(a)
  /\ account' = [account EXCEPT ![u].email = a, ![u].proven = TRUE]
  /\ UNCHANGED <<records, sent>>

SetActive(u, active) ==
  /\ Edit /\ AccountFree(u) /\ Exists(u)
  /\ account' = [account EXCEPT ![u].active = active]
  /\ UNCHANGED <<records, sent>>

(* A slip: a main address that leaves the list stays the main one. *)
SaveEmailsOnly(p, list, first) ==
  /\ Edit /\ PersonFree(p)
  /\ first = IF main[p] = NoAddress /\ list # {} THEN CHOOSE a \in list : TRUE ELSE main[p]
  /\ emails' = [emails EXCEPT ![p] = list] /\ main' = [main EXCEPT ![p] = first]
  /\ UNCHANGED <<account, member, seat, sent>>

\* The addresses of a person are saved as a whole; one of them is the main.
SaveEmails(p, list, first) ==
  /\ Edit /\ PersonFree(p)
  /\ IF list = {} THEN first = NoAddress ELSE first \in list
  /\ emails' = [emails EXCEPT ![p] = list] /\ main' = [main EXCEPT ![p] = first]
  /\ UNCHANGED <<account, member, seat, sent>>

\* A person is linked to a further organization, or becomes a visitor, or
\* a visitor a member (presby_link_person, changeEngagement).  A new row
\* waits for a connection: it refers to the person and the organization.
Join(p, o, as) ==
  /\ Edit /\ member[p][o] # "ended"
  /\ member[p][o] = "none" => OrgFree(o) /\ PersonFree(p)
  /\ member' = [member EXCEPT ![p][o] = as]
  /\ UNCHANGED <<account, emails, main, seat, sent>>

\* Archiving revokes the open invitation; a removal from the roll does not.
EndMembership(p, o, archive) ==
  /\ Edit /\ o \in LiveAt(p)
  /\ member' = [member EXCEPT ![p][o] = "ended"]
  /\ sent' = IF archive
             THEN [i \in DOMAIN sent |-> IF i \in OpenFor(o, p)
                                         THEN [sent[i] EXCEPT !.state = "revoked"] ELSE sent[i]]
             ELSE sent
  /\ UNCHANGED <<account, emails, main, seat>>

Restore(p, o) ==
  /\ Edit /\ member[p][o] = "ended"
  /\ member' = [member EXCEPT ![p][o] = "member"]
  /\ UNCHANGED <<account, emails, main, seat, sent>>

TakeSeat(p) ==
  /\ Edit /\ p \notin seat
  /\ seat' = seat \cup {p}
  /\ UNCHANGED <<account, emails, main, member, sent>>

Send == \/ \E o \in Org, p \in Person : Issue(o, p)
        \/ \E i \in DOMAIN sent : Resend(i) \/ Revoke(i) \/ Expire(i)

SignIn == \E u \in Account :
  \/ \E i \in DOMAIN sent : Accept(i, u) \/ AcceptInPlace(i, u) \/ AcceptAnew(i, u)
  \/ \E p \in Person, o \in Org :
       \/ ConnectRead(u, p, o) \/ ConnectLocked(u, p, o)
       \/ ConnectChecked(u, p, o) \/ Connect(u, p, o)
  \/ GiveUp(u)

Others ==
  \/ \E u \in Account, a \in Address : ChangeEmail(u, a) \/ \E b \in BOOLEAN : SignUp(u, a, b)
  \/ \E u \in Account : Prove(u) \/ \E b \in BOOLEAN : SetActive(u, b)
  \/ \E p \in Person : \/ \E list \in SUBSET Address, first \in Address \cup {NoAddress} :
                            SaveEmails(p, list, first)
                       \/ TakeSeat(p)
  \/ \E p \in Person, o \in Org :
       \/ \E as \in {"member", "visitor"} : Join(p, o, as)
       \/ \E b \in BOOLEAN : EndMembership(p, o, b)
       \/ Restore(p, o)

Next == Send \/ SignIn \/ Others

Spec == Init /\ [][Next]_vars
--------------------------------------------------------------------------------
(* Properties. *)

(* Every variable has its type, no chain has more resends than it may      *)
(* (account_invitations, users, people, contact_methods, memberships). *)
TypeOK ==
  /\ account \in [Account -> [email: Address \cup {NoAddress}, proven: BOOLEAN, active: BOOLEAN]]
  /\ link \in [Person -> Account \cup {NoAccount}]
  /\ emails \in [Person -> SUBSET Address] /\ main \in [Person -> Address \cup {NoAddress}]
  /\ \A p \in Person : main[p] # NoAddress => main[p] \in emails[p]
  /\ member \in [Person -> [Org -> Membership]]
  /\ seat \subseteq Person
  /\ sent \in Seq(Invitation) /\ Len(sent) <= MaxSent
  /\ trying \in [Account -> SUBSET (Person \X Org \X Phase)]
  /\ edits \in 0 .. MaxEdits

(* An account is never two people: whatever invitations of however many    *)
(* organizations it accepts, and however it is connected, no two people    *)
(* are linked to it (presby__accept_invitation_core step 4, connect 3). *)
OnePersonEach ==
  \A p, q \in Person : link[p] # NoAccount /\ link[p] = link[q] => p = q

(* Nobody is linked through an address that has left their record: the     *)
(* account that becomes a person's has, at that moment, an address the     *)
(* record still carries, however old the invitation (R27). *)
LinkedThroughRecord ==
  [][\A p \in Person : link'[p] # link[p] =>
       link[p] = NoAccount /\ account'[link'[p]].email \in emails[p]]_vars

(* Nobody is connected over the head of an invitation of their own         *)
(* congregation: where the person has a membership, living or ended, no    *)
(* open invitation to the account's address waits for an answer when the   *)
(* connection is committed, although check 4 is some statements old by     *)
(* then (connect, check 4 under the organization's lock, and 9).           *)
NotAskedAtHome ==
  [][\A p \in Person : link'[p] # link[p] /\ sent' = sent =>
       \A i \in DOMAIN sent : Alive(i) /\ sent[i].to = account[link'[p]].email =>
                              member[p][sent[i].org] = "none"]_vars
================================================================================

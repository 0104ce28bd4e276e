---------------------------- MODULE SignInLinksProofs ----------------------------
(***************************************************************************)
(* Proofs about who signs in as whom, for every set of accounts, people,   *)
(* organizations and addresses, any number of invitations and any number   *)
(* of edits meanwhile.                                                     *)
(*                                                                         *)
(* Links are made by two steps only, an acceptance (Settle) and a          *)
(* connection (Connect); LinkShape says so.  An acceptance asks for all it *)
(* needs in its one step.  A connection does not: it commits what it has   *)
(* read some statements ago, and the induction (Safe) is about what still  *)
(* holds of that because of the locks it has taken meanwhile.              *)
(***************************************************************************)
EXTENDS SignInLinks, SequenceTheorems, TLAPS

USE SignInAssumption

Accounts == [email: Address \cup {NoAddress}, proven: BOOLEAN, active: BOOLEAN]

(* TypeOK, one part at a time.                                             *)
AccountsOK == account \in [Account -> Accounts] /\ link \in [Person -> Account \cup {NoAccount}]
RecordsOK ==
  /\ emails \in [Person -> SUBSET Address] /\ main \in [Person -> Address \cup {NoAddress}]
  /\ \A p \in Person : main[p] # NoAddress => main[p] \in emails[p]
  /\ member \in [Person -> [Org -> Membership]]
  /\ seat \subseteq Person
SentOK == sent \in Seq(Invitation) /\ Len(sent) <= MaxSent
TryingOK == trying \in [Account -> SUBSET (Person \X Org \X Phase)] /\ edits \in 0 .. MaxEdits

(* A step of a connection.                                                 *)
Connecting(u, p, o) ==
  \/ ConnectRead(u, p, o) \/ ConnectLocked(u, p, o)
  \/ ConnectChecked(u, p, o) \/ Connect(u, p, o)

LEMMA TypeParts == TypeOK <=> AccountsOK /\ RecordsOK /\ SentOK /\ TryingOK
BY DEF TypeOK, AccountsOK, Accounts, RecordsOK, SentOK, TryingOK

LEMMA TypeAfter == AccountsOK' /\ RecordsOK' /\ SentOK' /\ TryingOK' => TypeOK'
BY DEF TypeOK, AccountsOK, Accounts, RecordsOK, SentOK, TryingOK

LEMMA SentTyped == ASSUME SentOK, NEW i \in DOMAIN sent PROVE
  /\ sent[i] \in Invitation
  /\ sent[i].person \in Person /\ sent[i].to \in Address
<1>1. sent[i] \in Invitation
  BY DEF SentOK
<1>. QED BY <1>1 DEF Invitation

LEMMA InitTyped == Init => TypeOK
<1>. SUFFICES ASSUME Init PROVE AccountsOK /\ RecordsOK /\ SentOK /\ TryingOK
  BY TypeParts
<1>1. AccountsOK
  BY DEF Init, AccountsOK, Accounts
<1>2. RecordsOK
  BY DEF Init, RecordsOK, Membership
<1>3. SentOK
  BY DEF Init, SentOK
<1>4. TryingOK
  BY DEF Init, TryingOK, NoCandidate
<1>. QED BY <1>1, <1>2, <1>3, <1>4

LEMMA LetterTyped ==
  ASSUME TypeOK, NEW o \in Org, NEW p \in Person, NEW count \in 0 .. MaxResends,
         main[p] # NoAddress
  PROVE  Letter(o, p, count) \in Invitation
BY DEF TypeOK, Letter, Invitation

(* The state or the expiry of one invitation changes.                      *)
LEMMA SentKeeps ==
  ASSUME SentOK, NEW i \in DOMAIN sent,
         NEW state \in {"open", "accepted", "revoked", "superseded", "blocked"}
  PROVE  /\ [sent EXCEPT ![i].state = state] \in Seq(Invitation)
         /\ Len([sent EXCEPT ![i].state = state]) = Len(sent)
         /\ [sent EXCEPT ![i].expired = TRUE] \in Seq(Invitation)
         /\ Len([sent EXCEPT ![i].expired = TRUE]) = Len(sent)
<1>1. sent[i] \in Invitation
  BY DEF SentOK
<1>2. [sent[i] EXCEPT !.state = state] \in Invitation /\ [sent[i] EXCEPT !.expired = TRUE] \in Invitation
  BY <1>1 DEF Invitation
<1>. QED BY <1>2 DEF SentOK

LEMMA SendTyped == ASSUME TypeOK, Send PROVE TypeOK'
<1>. USE TypeParts, TypeAfter
<1>1. ASSUME NEW o \in Org, NEW p \in Person, Issue(o, p) PROVE TypeOK'
  <2>1. Letter(o, p, 0) \in Invitation
    BY <1>1, LetterTyped DEF Issue, MaySend
  <2>2. SentOK'
    BY <1>1, <2>1 DEF Issue, MaySend, SentOK
  <2>. QED BY <1>1, <2>2 DEF Issue, records, AccountsOK, RecordsOK, TryingOK
<1>2. ASSUME NEW i \in DOMAIN sent, Resend(i) PROVE TypeOK'
  <2>. DEFINE o == sent[i].org
              p == sent[i].person
              old == [sent EXCEPT ![i].state = "superseded"]
  <2>1. sent[i] \in Invitation
    BY DEF SentOK
  <2>2. /\ sent[i].count < MaxResends /\ MaySend(o, p)
        /\ sent' = Append(old, Letter(o, p, sent[i].count + 1))
    BY <1>2 DEF Resend
  <2>3. Letter(o, p, sent[i].count + 1) \in Invitation
    BY <2>1, <2>2, LetterTyped DEF Invitation, MaySend
  <2>4. old \in Seq(Invitation) /\ Len(old) = Len(sent)
    BY SentKeeps
  <2>5. Len(sent) < MaxSent
    BY <2>2 DEF MaySend
  <2>. HIDE DEF old, o, p
  <2>6. SentOK'
    BY <2>2, <2>3, <2>4, <2>5 DEF SentOK
  <2>. QED BY <1>2, <2>6 DEF Resend, records, AccountsOK, RecordsOK, TryingOK
<1>3. ASSUME NEW i \in DOMAIN sent, Revoke(i) \/ Expire(i) PROVE TypeOK'
  <2>1. SentOK'
    BY <1>3, SentKeeps DEF Revoke, Expire, SentOK
  <2>. QED BY <1>3, <2>1 DEF Revoke, Expire, records, AccountsOK, RecordsOK, TryingOK
<1>. QED BY <1>1, <1>2, <1>3 DEF Send

LEMMA SettleTyped ==
  ASSUME TypeOK, NEW i \in DOMAIN sent, NEW u \in Account, Settle(i, u)
  PROVE  link' \in [Person -> Account \cup {NoAccount}] /\ RecordsOK' /\ SentOK' /\ TryingOK'
<1>. USE TypeParts, TypeAfter
<1>1. link' \in [Person -> Account \cup {NoAccount}]
  BY DEF Settle, AccountsOK
<1>2. SentOK'
  BY SentKeeps DEF Settle, SentOK
<1>. QED BY <1>1, <1>2 DEF Settle, records, RecordsOK, TryingOK

LEMMA SignInTyped == ASSUME TypeOK, SignIn PROVE TypeOK'
<1>. USE TypeParts, TypeAfter
<1>1. PICK u \in Account :
        \/ \E i \in DOMAIN sent : Accept(i, u) \/ AcceptInPlace(i, u) \/ AcceptAnew(i, u)
        \/ \E p \in Person, o \in Org : Connecting(u, p, o)
        \/ GiveUp(u)
  BY DEF SignIn, Connecting
<1>2. ASSUME NEW i \in DOMAIN sent, Accept(i, u) \/ AcceptInPlace(i, u) PROVE TypeOK'
  BY <1>2, SettleTyped DEF Accept, AcceptInPlace, AccountsOK
<1>3. ASSUME NEW i \in DOMAIN sent, AcceptAnew(i, u) PROVE TypeOK'
  <2>1. sent[i].to \in Address
    BY SentTyped
  <2>2. [email |-> sent[i].to, proven |-> TRUE, active |-> TRUE] \in Accounts
    BY <2>1 DEF Accounts
  <2>3. account' \in [Account -> Accounts]
    BY <1>3, <2>2 DEF AcceptAnew, AccountsOK
  <2>. QED BY <1>3, <2>3, SettleTyped DEF AcceptAnew, AccountsOK
<1>4. ASSUME NEW p \in Person, NEW o \in Org, Connecting(u, p, o) PROVE TypeOK'
  <2>. USE DEF Connecting, ConnectRead, ConnectLocked, ConnectChecked, Connect, Goes, Connected
  <2>1. TryingOK'
    BY <1>4 DEF TryingOK, NoCandidate, Phase
  <2>2. link' \in [Person -> Account \cup {NoAccount}]
    BY <1>4 DEF AccountsOK
  <2>. QED BY <1>4, <2>1, <2>2 DEF records, AccountsOK, RecordsOK, SentOK
<1>5. CASE GiveUp(u)
  BY <1>5 DEF GiveUp, NoCandidate, records, AccountsOK, RecordsOK, SentOK, TryingOK
<1>. QED BY <1>1, <1>2, <1>3, <1>4, <1>5

LEMMA OthersTyped == ASSUME TypeOK, Others PROVE TypeOK'
<1>. USE TypeParts, TypeAfter
<1>1. Edit
  BY DEF Others, ChangeEmail, SignUp, Prove, SetActive, SaveEmails, TakeSeat, Join, EndMembership, Restore
<1>2. TryingOK'
  BY <1>1 DEF Edit, TryingOK
<1>3. ASSUME NEW u \in Account, NEW new \in Accounts, account' = [account EXCEPT ![u] = new],
             UNCHANGED <<records, sent>>
      PROVE  TypeOK'
  <2>1. AccountsOK'
    BY <1>1, <1>3 DEF Edit, AccountsOK
  <2>. QED BY <1>2, <1>3, <2>1 DEF records, RecordsOK, SentOK
<1>4. ASSUME NEW u \in Account, NEW a \in Address, NEW b \in BOOLEAN,
             ChangeEmail(u, a) \/ SignUp(u, a, b)
      PROVE  TypeOK'
  <2>1. /\ [account[u] EXCEPT !.email = a, !.proven = TRUE] \in Accounts
        /\ [email |-> a, proven |-> b, active |-> TRUE] \in Accounts
    BY DEF AccountsOK, Accounts
  <2>2. UNCHANGED <<records, sent>> /\ \E new \in Accounts : account' = [account EXCEPT ![u] = new]
    <3>1. CASE ChangeEmail(u, a)
      BY <2>1, <3>1 DEF ChangeEmail
    <3>2. CASE SignUp(u, a, b)
      BY <2>1, <3>2 DEF SignUp
    <3>. QED BY <1>4, <3>1, <3>2
  <2>. QED BY <1>3, <2>2
<1>5. ASSUME NEW u \in Account, NEW b \in BOOLEAN, Prove(u) \/ SetActive(u, b)
      PROVE  TypeOK'
  <2>1. /\ [account[u] EXCEPT !.proven = TRUE] \in Accounts
        /\ [account[u] EXCEPT !.active = b] \in Accounts
    BY DEF AccountsOK, Accounts
  <2>. QED BY <1>3, <1>5, <2>1 DEF Prove, SetActive
<1>6. ASSUME NEW p \in Person, NEW list \in SUBSET Address, NEW first \in Address \cup {NoAddress},
             SaveEmails(p, list, first)
      PROVE  TypeOK'
  <2>1. RecordsOK'
    BY <1>6 DEF SaveEmails, RecordsOK
  <2>. QED BY <1>1, <1>2, <1>6, <2>1 DEF SaveEmails, Edit, AccountsOK, SentOK
<1>7. ASSUME NEW p \in Person, NEW o \in Org, NEW as \in {"member", "visitor"},
             Join(p, o, as) \/ Restore(p, o)
      PROVE  TypeOK'
  <2>1. \/ member' = [member EXCEPT ![p][o] = as]
        \/ member' = [member EXCEPT ![p][o] = "member"]
    BY <1>7 DEF Join, Restore
  <2>2. as \in Membership /\ "member" \in Membership
    BY DEF Membership
  <2>3. member' \in [Person -> [Org -> Membership]]
    <3>1. PICK to \in Membership : member' = [member EXCEPT ![p][o] = to]
      BY <2>1, <2>2
    <3>2. [member[p] EXCEPT ![o] = to] \in [Org -> Membership]
      BY DEF RecordsOK
    <3>. QED BY <3>1, <3>2 DEF RecordsOK
  <2>4. RecordsOK'
    BY <1>7, <2>3 DEF Join, Restore, RecordsOK
  <2>. QED BY <1>1, <1>2, <1>7, <2>4 DEF Join, Restore, Edit, AccountsOK, SentOK
<1>8. ASSUME NEW p \in Person, NEW o \in Org, NEW b \in BOOLEAN, EndMembership(p, o, b)
      PROVE  TypeOK'
  <2>1. RecordsOK'
    BY <1>8 DEF EndMembership, RecordsOK, Membership
  <2>2. SentOK'
    <3>. DEFINE new == [i \in DOMAIN sent |-> IF i \in OpenFor(o, p)
                                              THEN [sent[i] EXCEPT !.state = "revoked"] ELSE sent[i]]
    <3>1. ASSUME NEW i \in DOMAIN sent PROVE new[i] \in Invitation
      <4>1. sent[i] \in Invitation /\ [sent[i] EXCEPT !.state = "revoked"] \in Invitation
        BY SentTyped DEF Invitation
      <4>. QED BY <4>1
    <3>2. new \in Seq(Invitation) /\ Len(new) = Len(sent)
      <4>1. DOMAIN new = 1 .. Len(sent) /\ Len(sent) \in Nat
        BY DEF SentOK
      <4>2. new \in [1 .. Len(sent) -> Invitation]
        BY <3>1, <4>1
      <4>. HIDE DEF new
      <4>. QED BY <4>1, <4>2
    <3>3. sent' = sent \/ sent' = new
      BY <1>8 DEF EndMembership
    <3>. HIDE DEF new
    <3>. QED BY <3>2, <3>3 DEF SentOK
  <2>. QED BY <1>1, <1>2, <1>8, <2>1, <2>2 DEF EndMembership, Edit, AccountsOK
<1>9. ASSUME NEW p \in Person, TakeSeat(p) PROVE TypeOK'
  BY <1>1, <1>2, <1>9 DEF TakeSeat, Edit, AccountsOK, RecordsOK, SentOK
<1>. QED BY <1>4, <1>5, <1>6, <1>7, <1>8, <1>9 DEF Others

LEMMA StepTyped == TypeOK /\ [Next]_vars => TypeOK'
<1>1. TypeOK /\ UNCHANGED vars => TypeOK'
  BY DEF TypeOK, vars, records
<1>. QED BY <1>1, SendTyped, SignInTyped, OthersTyped DEF Next

(* Every variable keeps its type; the main address of a person is one of   *)
(* those on the record, no chain of resends is longer than it may be.      *)
THEOREM Typing == Spec => []TypeOK
<1>. QED BY InitTyped, StepTyped, PTL DEF Spec

(* What becomes of the links in a step: an acceptance, a connection, or    *)
(* nothing.                                                                *)
LEMMA LinkShape ==
  ASSUME TypeOK, [Next]_vars
  PROVE  \/ link' = link
         \/ \E u \in Account, i \in DOMAIN sent :
              /\ Presentable(i) /\ Settle(i, u) /\ ~Blocked(i, u)
              /\ account'[u].email = sent[i].to
         \/ \E u \in Account, p \in Person, o \in Org : Connect(u, p, o)
<1>1. ASSUME NEW u \in Account, NEW i \in DOMAIN sent,
             Accept(i, u) \/ AcceptInPlace(i, u) \/ AcceptAnew(i, u), ~Blocked(i, u)
      PROVE  Presentable(i) /\ Settle(i, u) /\ account'[u].email = sent[i].to
  BY <1>1 DEF Accept, AcceptInPlace, AcceptAnew, InPlace, ByToken, TypeOK
<1>2. ASSUME NEW u \in Account, NEW i \in DOMAIN sent,
             Accept(i, u) \/ AcceptInPlace(i, u) \/ AcceptAnew(i, u), Blocked(i, u)
      PROVE  link' = link
  BY <1>2 DEF Accept, AcceptInPlace, AcceptAnew, Settle
<1>3. CASE Send \/ UNCHANGED vars
  BY <1>3 DEF Send, Issue, Resend, Revoke, Expire, vars
<1>4. CASE Others
  BY <1>4 DEF Others, ChangeEmail, SignUp, Prove, SetActive, SaveEmails, TakeSeat, Join,
              EndMembership, Restore, Edit
<1>5. CASE SignIn
  <2>1. ASSUME NEW u \in Account, NEW p \in Person, NEW o \in Org,
               ConnectRead(u, p, o) \/ ConnectLocked(u, p, o) \/ ConnectChecked(u, p, o)
        PROVE  link' = link
    BY <2>1 DEF ConnectRead, ConnectLocked, ConnectChecked, Goes
  <2>2. ASSUME NEW u \in Account, GiveUp(u) PROVE link' = link
    BY <2>2 DEF GiveUp
  <2>. QED BY <1>1, <1>2, <1>5, <2>1, <2>2 DEF SignIn
<1>. QED BY <1>3, <1>4, <1>5 DEF Next

(* What a connection that holds its locks may rely on: the account is      *)
(* nobody's, and no open invitation of the locked organization goes to its *)
(* address; once checked, the person is nobody's either, carries the       *)
(* address, and belongs nowhere else.  No two hold the same person.        *)
Relies ==
  \A u \in Account, p \in Person, o \in Org : Holds(u, p, o) =>
    /\ Exists(u) /\ LinkedTo(u) = {}
    /\ \A i \in DOMAIN sent : Alive(i) /\ sent[i].org = o => sent[i].to # account[u].email
Sole ==
  \A u \in Account, p \in Person, o \in Org : <<p, o, "sole">> \in trying[u] =>
    /\ link[p] = NoAccount /\ account[u].email \in emails[p]
    /\ \A b \in Org \ {o} : member[p][b] = "none"
Apart ==
  \A u, v \in Account, p \in Person, o, b \in Org : Holds(u, p, o) /\ Holds(v, p, b) => u = v
Safe == TypeOK /\ Relies /\ Sole /\ Apart

LEMMA InitSafe == Init => Relies /\ Sole /\ Apart
BY DEF Init, Relies, Sole, Apart, Holds, NoCandidate

(* A step of another that leaves the connections and what they locked.     *)
LEMMA Kept ==
  ASSUME Safe, trying' = trying,
         \A u \in Account, p \in Person, o \in Org : Holds(u, p, o) =>
           /\ account'[u].email = account[u].email
           /\ LinkedTo(u)' \subseteq LinkedTo(u)
           /\ \A i \in DOMAIN sent' : Alive(i)' /\ sent'[i].org = o =>
                /\ i \in DOMAIN sent /\ Alive(i)
                /\ sent[i].org = o /\ sent[i].to = sent'[i].to
           /\ link'[p] = link[p] /\ emails'[p] = emails[p]
           /\ \A b \in Org : member[p][b] = "none" => member'[p][b] = "none"
  PROVE  Relies' /\ Sole' /\ Apart'
<1>1. \A u \in Account, p \in Person, o \in Org : Holds(u, p, o)' <=> Holds(u, p, o)
  BY DEF Holds
<1>2. Apart'
  BY <1>1 DEF Safe, Apart
<1>3. Relies'
  BY <1>1 DEF Safe, Relies, Exists
<1>4. Sole'
  <2>1. \A u \in Account, p \in Person, o \in Org : <<p, o, "sole">> \in trying[u] => Holds(u, p, o)
    BY DEF Holds
  <2>. QED BY <2>1 DEF Safe, Sole
<1>. QED BY <1>2, <1>3, <1>4

(* A new invitation is of an organization nobody holds.                    *)
LEMMA SendSafe == ASSUME Safe, Send PROVE Relies' /\ Sole' /\ Apart'
<1>. USE DEF Safe, OrgFree
<1>1. UNCHANGED <<account, link, records, trying>>
  BY DEF Send, Issue, Resend, Revoke, Expire
<1>2. SentOK
  BY TypeParts
<1>3. ASSUME NEW o \in Org, OrgFree(o), NEW old \in Seq(Invitation), NEW p \in Person, NEW count \in Nat,
             sent' = Append(old, Letter(o, p, count)), Len(old) = Len(sent),
             \A i \in DOMAIN old : old[i].state = "open" /\ ~old[i].expired => old[i] = sent[i]
      PROVE  Relies' /\ Sole' /\ Apart'
  <2>1. ASSUME NEW i \in DOMAIN sent', Alive(i)', sent'[i].org # o
        PROVE  i \in DOMAIN sent /\ sent'[i] = sent[i] /\ Alive(i)
    <3>1. DOMAIN sent = 1 .. Len(sent) /\ DOMAIN old = 1 .. Len(sent) /\ Len(sent) \in Nat
      BY <1>2, <1>3 DEF SentOK
    <3>2. i \in 1 .. Len(sent) + 1
      BY <1>3, <3>1
    <3>3. i # Len(sent) + 1
      BY <1>3, <2>1, <3>1 DEF Letter
    <3>4. i \in DOMAIN old /\ sent'[i] = old[i]
      BY <1>3, <3>1, <3>2, <3>3
    <3>. QED BY <1>3, <2>1, <3>1, <3>4 DEF Alive, Open
  <2>. QED BY <1>1, <1>3, <2>1, Kept DEF records, LinkedTo
<1>4. ASSUME NEW o \in Org, NEW p \in Person, Issue(o, p) PROVE Relies' /\ Sole' /\ Apart'
  BY <1>2, <1>3, <1>4 DEF Issue, SentOK
<1>5. ASSUME NEW i \in DOMAIN sent, Resend(i) PROVE Relies' /\ Sole' /\ Apart'
  <2>. DEFINE old == [sent EXCEPT ![i].state = "superseded"]
  <2>0. sent[i] \in Invitation
    BY <1>2 DEF SentOK
  <2>1. /\ sent[i] \in Invitation
        /\ sent[i].org \in Org /\ sent[i].person \in Person /\ sent[i].count + 1 \in Nat
    BY <2>0 DEF Invitation
  <2>2. old \in Seq(Invitation) /\ Len(old) = Len(sent)
    BY <1>2, SentKeeps
  <2>3. \A j \in DOMAIN old : old[j].state = "open" /\ ~old[j].expired => old[j] = sent[j]
    BY <2>1 DEF Invitation
  <2>4. OrgFree(sent[i].org) /\ sent' = Append(old, Letter(sent[i].org, sent[i].person, sent[i].count + 1))
    BY <1>5 DEF Resend
  <2>. HIDE DEF old
  <2>. QED BY <1>3, <2>1, <2>2, <2>3, <2>4
<1>6. ASSUME NEW i \in DOMAIN sent, Revoke(i) \/ Expire(i) PROVE Relies' /\ Sole' /\ Apart'
  <2>1. sent[i] \in Invitation
    BY <1>2 DEF SentOK
  <2>2. \A j \in DOMAIN sent' : Alive(j)' => j \in DOMAIN sent /\ Alive(j) /\ sent'[j].org = sent[j].org /\ sent'[j].to = sent[j].to
    BY <1>6, <2>1 DEF Revoke, Expire, Alive, Open, Invitation
  <2>. QED BY <1>1, <2>2, Kept DEF records, LinkedTo
<1>. QED BY <1>4, <1>5, <1>6 DEF Send

(* An acceptance has nobody's locked rows.                                 *)
LEMMA AcceptSafe ==
  ASSUME Safe, NEW u \in Account, NEW i \in DOMAIN sent, Settle(i, u),
         \A v \in Account \ {u} : account'[v] = account[v]
  PROVE  Relies' /\ Sole' /\ Apart'
<1>. DEFINE p == sent[i].person
<1>1. sent[i] \in Invitation /\ p \in Person
  BY SentTyped, TypeParts DEF Safe
<1>2. link' \in {link, [link EXCEPT ![p] = u]} /\ link \in [Person -> Account \cup {NoAccount}]
  BY DEF Settle, Safe, TypeOK
<1>3. \A v \in Account \ {u} : LinkedTo(v)' \subseteq LinkedTo(v)
  BY <1>1, <1>2, SignInAssumption DEF LinkedTo
<1>4. \A j \in DOMAIN sent' : Alive(j)' => j \in DOMAIN sent /\ Alive(j) /\ sent'[j].org = sent[j].org /\ sent'[j].to = sent[j].to
  BY <1>1 DEF Settle, Alive, Open, Invitation
<1>5. AccountFree(u) /\ PersonFree(p) /\ UNCHANGED <<records, trying>>
  BY DEF Settle, Unheld
<1>6. ASSUME NEW v \in Account, NEW q \in Person, NEW o \in Org, Holds(v, q, o)
      PROVE  v # u /\ q # p
  BY <1>1, <1>5, <1>6 DEF AccountFree, PersonFree
<1>7. \A q \in Person \ {p} : link'[q] = link[q]
  BY <1>1, <1>2
<1>. HIDE DEF p
<1>. QED BY <1>3, <1>4, <1>5, <1>6, <1>7, Kept DEF records

(* A connection takes its locks where nobody has them, and relies on what  *)
(* it has read under them.                                                 *)
LEMMA ConnectSafe ==
  ASSUME Safe, NEW u \in Account, NEW p \in Person, NEW o \in Org, Connecting(u, p, o)
  PROVE  Relies' /\ Sole' /\ Apart'
<1>. USE DEF Safe
<1>1. trying \in [Account -> SUBSET (Person \X Org \X Phase)] /\ link \in [Person -> Account \cup {NoAccount}]
  BY DEF TypeOK
<1>2. \A v \in Account \ {u} : trying'[v] = trying[v]
  BY <1>1 DEF Connecting, ConnectRead, ConnectLocked, ConnectChecked, Connect, Goes, Connected
<1>3. \A v \in Account \ {u}, q \in Person, b \in Org : Holds(v, q, b)' <=> Holds(v, q, b)
  BY <1>2 DEF Holds
<1>4. UNCHANGED <<account, records, sent, edits>>
  BY DEF Connecting, ConnectRead, ConnectLocked, ConnectChecked, Connect, Goes, Connected
<1>5. CASE ConnectRead(u, p, o)
  <2>1. trying'[u] = {<<p, o, "read">>} /\ link' = link
    BY <1>1, <1>5 DEF ConnectRead, Goes
  <2>2. \A q \in Person, b \in Org : ~Holds(u, q, b)' /\ <<q, b, "sole">> \notin trying'[u]
    BY <2>1 DEF Holds
  <2>a. \A v \in Account, q \in Person, b \in Org : Holds(v, q, b)' => v # u /\ Holds(v, q, b)
    BY <1>3, <2>2
  <2>3. Apart'
    BY <2>a DEF Apart
  <2>4. Relies'
    BY <1>3, <1>4, <2>1, <2>2 DEF Relies, Exists, LinkedTo, Alive, Open
  <2>5. Sole'
    BY <1>2, <1>4, <2>1, <2>2 DEF Sole, records
  <2>. QED BY <2>3, <2>4, <2>5
<1>6. CASE ConnectLocked(u, p, o)
  <2>1. trying'[u] = {<<p, o, "locked">>} /\ link' = link
    BY <1>1, <1>6 DEF ConnectLocked, Goes
  <2>2. \A q \in Person, b \in Org : /\ Holds(u, q, b)' => q = p /\ b = o
                                    /\ <<q, b, "sole">> \notin trying'[u]
    BY <2>1 DEF Holds
  <2>3. PersonFree(p) /\ AccountFits(u)
    BY <1>6 DEF ConnectLocked
  <2>4. Apart'
    <3>1. ASSUME NEW v \in Account, NEW w \in Account, NEW q \in Person, NEW b \in Org, NEW c \in Org,
                 Holds(v, q, b)', Holds(w, q, c)'
          PROVE  v = w
      <4>1. CASE v = u /\ w # u
        BY <1>3, <2>2, <2>3, <3>1, <4>1 DEF PersonFree
      <4>2. CASE v # u /\ w = u
        BY <1>3, <2>2, <2>3, <3>1, <4>2 DEF PersonFree
      <4>3. CASE v # u /\ w # u
        BY <1>3, <3>1, <4>3 DEF Apart
      <4>. QED BY <4>1, <4>2, <4>3
    <3>. QED BY <3>1 DEF Apart
  <2>5. Relies'
    <3>1. Exists(u) /\ LinkedTo(u) = {} /\ \A i \in DOMAIN sent : Alive(i) => sent[i].to # account[u].email
      BY <2>3 DEF AccountFits, AwaitsAnswer
    <3>. QED BY <1>3, <1>4, <2>1, <2>2, <3>1 DEF Relies, Exists, LinkedTo, Alive, Open
  <2>6. Sole'
    BY <1>2, <1>4, <2>1, <2>2 DEF Sole, records
  <2>. QED BY <2>4, <2>5, <2>6
<1>7. CASE ConnectChecked(u, p, o)
  <2>1. trying[u] = {<<p, o, "locked">>} /\ trying'[u] = {<<p, o, "sole">>} /\ link' = link
    BY <1>1, <1>7 DEF ConnectChecked, Goes
  <2>2. \A q \in Person, b \in Org : Holds(u, q, b)' => q = p /\ b = o /\ Holds(u, q, b)
    BY <2>1 DEF Holds
  <2>3. \A v \in Account, q \in Person, b \in Org : Holds(v, q, b)' => Holds(v, q, b)
    BY <1>3, <2>2
  <2>4. Apart'
    BY <2>3 DEF Apart
  <2>5. Relies'
    BY <1>4, <2>1, <2>3 DEF Relies, Exists, LinkedTo, Alive, Open
  <2>6. link[p] = NoAccount /\ account[u].email \in emails[p] /\ \A b \in Org \ {o} : member[p][b] = "none"
    BY <1>7 DEF ConnectChecked, PersonFits, Candidates, Refused
  <2>7. Sole'
    BY <1>2, <1>4, <2>1, <2>6 DEF Sole, records
  <2>. QED BY <2>4, <2>5, <2>7
<1>8. CASE Connect(u, p, o)
  <2>1. trying[u] = {<<p, o, "sole">>} /\ trying'[u] = {} /\ link' = [link EXCEPT ![p] = u]
    BY <1>1, <1>8 DEF Connect, Connected, NoCandidate
  <2>2. \A q \in Person, b \in Org : ~Holds(u, q, b)' /\ <<q, b, "sole">> \notin trying'[u]
    BY <2>1 DEF Holds
  <2>a. \A v \in Account, q \in Person, b \in Org : Holds(v, q, b)' => v # u /\ Holds(v, q, b)
    BY <1>3, <2>2
  <2>3. Apart'
    BY <2>a DEF Apart
  <2>4. \A v \in Account \ {u} : LinkedTo(v)' \subseteq LinkedTo(v)
    BY <1>1, <2>1 DEF LinkedTo
  <2>5. Relies'
    <3>1. ASSUME NEW v \in Account, NEW q \in Person, NEW b \in Org, Holds(v, q, b)'
          PROVE  /\ Exists(v)' /\ LinkedTo(v)' = {}
                 /\ \A i \in DOMAIN sent' : Alive(i)' /\ sent'[i].org = b => sent'[i].to # account'[v].email
      <4>1. v # u /\ Holds(v, q, b)
        BY <2>a, <3>1
      <4>2. LinkedTo(v)' = {}
        BY <2>4, <4>1 DEF Relies
      <4>. QED BY <1>4, <4>1, <4>2 DEF Relies, Exists, Alive, Open
    <3>. QED BY <3>1 DEF Relies
  <2>6. Holds(u, p, o)
    BY <2>1 DEF Holds
  <2>7. ASSUME NEW v \in Account, NEW q \in Person, NEW b \in Org, <<q, b, "sole">> \in trying'[v]
        PROVE  <<q, b, "sole">> \in trying[v] /\ q # p
    BY <1>2, <2>2, <2>6, <2>7 DEF Apart, Holds
  <2>8. Sole'
    BY <1>1, <1>4, <2>1, <2>7 DEF Sole, records
  <2>. QED BY <2>3, <2>5, <2>8
<1>. QED BY <1>5, <1>6, <1>7, <1>8 DEF Connecting

LEMMA GiveUpSafe == ASSUME Safe, NEW u \in Account, GiveUp(u) PROVE Relies' /\ Sole' /\ Apart'
<1>1. trying \in [Account -> SUBSET (Person \X Org \X Phase)]
  BY DEF Safe, TypeOK
<1>2. trying' = [trying EXCEPT ![u] = {}] /\ UNCHANGED <<account, link, records, sent>>
  BY DEF GiveUp, NoCandidate
<1>3. \A v \in Account : trying'[v] \subseteq trying[v]
  BY <1>1, <1>2
<1>4. \A v \in Account, p \in Person, o \in Org : Holds(v, p, o)' => Holds(v, p, o)
  BY <1>3 DEF Holds
<1>5. Apart'
  BY <1>4 DEF Safe, Apart
<1>6. Relies'
  BY <1>2, <1>4 DEF Safe, Relies, Exists, LinkedTo, Alive, Open
<1>7. Sole'
  BY <1>2, <1>3 DEF Safe, Sole, records
<1>. QED BY <1>5, <1>6, <1>7

(* Others write the rows a connection has locked only where they add to    *)
(* what it did not rely on.                                                *)
LEMMA OthersSafe == ASSUME Safe, Others PROVE Relies' /\ Sole' /\ Apart'
<1>. USE DEF Safe
<1>1. link' = link /\ trying' = trying
  BY DEF Others, ChangeEmail, SignUp, Prove, SetActive, SaveEmails, TakeSeat, Join, EndMembership, Restore, Edit
<1>2. TypeOK
  OBVIOUS
<1>3. ASSUME NEW u \in Account, AccountFree(u), UNCHANGED <<records, sent>>,
             \A v \in Account \ {u} : account'[v] = account[v]
      PROVE  Relies' /\ Sole' /\ Apart'
  <2>1. \A v \in Account, q \in Person, o \in Org : Holds(v, q, o) => v # u
    BY <1>3 DEF AccountFree
  <2>. QED BY <1>1, <1>3, <2>1, Kept DEF records, LinkedTo, Alive, Open
<1>4. ASSUME NEW u \in Account,
             \/ \E a \in Address : ChangeEmail(u, a) \/ \E b \in BOOLEAN : SignUp(u, a, b)
             \/ Prove(u) \/ \E b \in BOOLEAN : SetActive(u, b)
      PROVE  Relies' /\ Sole' /\ Apart'
  <2>1. AccountFree(u)
    BY <1>4 DEF ChangeEmail, SignUp, Prove, SetActive, Relies, AccountFree
  <2>2. \A v \in Account \ {u} : account'[v] = account[v]
    BY <1>2, <1>4 DEF ChangeEmail, SignUp, Prove, SetActive, TypeOK
  <2>3. UNCHANGED <<records, sent>>
    BY <1>4 DEF ChangeEmail, SignUp, Prove, SetActive
  <2>. QED BY <1>3, <2>1, <2>2, <2>3
<1>5. ASSUME NEW p \in Person, NEW list \in SUBSET Address, NEW first \in Address \cup {NoAddress},
             SaveEmails(p, list, first)
      PROVE  Relies' /\ Sole' /\ Apart'
  <2>1. PersonFree(p) /\ UNCHANGED <<account, member, sent>> /\ \A q \in Person \ {p} : emails'[q] = emails[q]
    BY <1>2, <1>5 DEF SaveEmails, TypeOK
  <2>2. \A v \in Account, q \in Person, o \in Org : Holds(v, q, o) => q # p
    BY <2>1 DEF PersonFree
  <2>. QED BY <1>1, <2>1, <2>2, Kept DEF LinkedTo, Alive, Open
<1>6. ASSUME NEW p \in Person, NEW o \in Org,
             \/ \E as \in {"member", "visitor"} : Join(p, o, as)
             \/ Restore(p, o) \/ \E b \in BOOLEAN : EndMembership(p, o, b)
      PROVE  Relies' /\ Sole' /\ Apart'
  <2>1. member[p][o] = "none" => PersonFree(p)
    BY <1>6 DEF Join, Restore, EndMembership, LiveAt
  <2>2. \E to \in Membership : member' = [member EXCEPT ![p][o] = to]
    BY <1>6 DEF Join, Restore, EndMembership, Membership
  <2>3. ASSUME NEW v \in Account, NEW q \in Person, NEW c \in Org, Holds(v, q, c),
               NEW d \in Org, member[q][d] = "none"
        PROVE  member'[q][d] = "none"
    <3>1. ~(q = p /\ d = o)
      BY <2>1, <2>3 DEF PersonFree
    <3>2. member \in [Person -> [Org -> Membership]]
      BY <1>2 DEF TypeOK
    <3>. QED BY <2>2, <2>3, <3>1, <3>2
  <2>4. UNCHANGED <<account, emails>>
    BY <1>6 DEF Join, Restore, EndMembership
  <2>5. \A j \in DOMAIN sent' : Alive(j)' => j \in DOMAIN sent /\ Alive(j) /\ sent'[j].org = sent[j].org /\ sent'[j].to = sent[j].to
    <3>1. CASE sent' = sent
      BY <3>1 DEF Alive, Open
    <3>2. CASE sent' = [j \in DOMAIN sent |-> IF j \in OpenFor(o, p)
                                              THEN [sent[j] EXCEPT !.state = "revoked"] ELSE sent[j]]
      <4>1. ASSUME NEW j \in DOMAIN sent', Alive(j)'
            PROVE  j \in DOMAIN sent /\ sent'[j] = sent[j]
        <5>1. j \in DOMAIN sent /\ sent[j] \in Invitation
          BY <3>2, <4>1, <1>2, TypeParts, SentTyped
        <5>2. [sent[j] EXCEPT !.state = "revoked"].state = "revoked"
          BY <5>1 DEF Invitation
        <5>. QED BY <3>2, <4>1, <5>1, <5>2 DEF Alive, Open
      <4>. QED BY <4>1 DEF Alive, Open
    <3>. QED BY <1>6, <3>1, <3>2 DEF Join, Restore, EndMembership
  <2>. QED BY <1>1, <2>3, <2>4, <2>5, Kept DEF LinkedTo
<1>7. ASSUME NEW p \in Person, TakeSeat(p) PROVE Relies' /\ Sole' /\ Apart'
  BY <1>1, <1>7, Kept DEF TakeSeat, LinkedTo, Alive, Open
<1>. QED BY <1>4, <1>5, <1>6, <1>7 DEF Others

LEMMA StepSafe == Safe /\ [Next]_vars => Safe'
<1>. SUFFICES ASSUME Safe, [Next]_vars PROVE Relies' /\ Sole' /\ Apart'
  BY StepTyped DEF Safe
<1>1. CASE UNCHANGED vars
  BY <1>1, Kept DEF vars, records, LinkedTo, Alive, Open
<1>2. ASSUME NEW u \in Account, NEW i \in DOMAIN sent,
             Accept(i, u) \/ AcceptInPlace(i, u) \/ AcceptAnew(i, u)
      PROVE  Relies' /\ Sole' /\ Apart'
  <2>1. Settle(i, u)
    BY <1>2 DEF Accept, AcceptInPlace, AcceptAnew
  <2>2. \A v \in Account \ {u} : account'[v] = account[v]
    BY <1>2 DEF Accept, AcceptInPlace, AcceptAnew, Safe, TypeOK
  <2>. QED BY <2>1, <2>2, AcceptSafe
<1>3. CASE SignIn
  BY <1>2, <1>3, ConnectSafe, GiveUpSafe DEF SignIn, Connecting
<1>. QED BY <1>1, <1>3, SendSafe, OthersSafe DEF Next

LEMMA AlwaysSafe == Spec => []Safe
<1>1. Init => Safe
  BY InitSafe, InitTyped DEF Safe
<1>. QED BY <1>1, StepSafe, PTL DEF Spec

LEMMA OnePersonStep == Safe /\ OnePersonEach /\ [Next]_vars => OnePersonEach'
<1>. SUFFICES ASSUME TypeOK, Safe, OnePersonEach, [Next]_vars PROVE OnePersonEach'
  BY DEF Safe
<1>1. ASSUME NEW u \in Account, NEW r \in Person,
             link' = [link EXCEPT ![r] = u], LinkedTo(u) \ {r} = {}
      PROVE  OnePersonEach'
  BY <1>1 DEF OnePersonEach, LinkedTo, TypeOK
<1>2. CASE link' = link
  BY <1>2 DEF OnePersonEach
<1>3. ASSUME NEW u \in Account, NEW i \in DOMAIN sent, Settle(i, u), ~Blocked(i, u)
      PROVE  OnePersonEach'
  <2>1. sent[i].person \in Person
    BY TypeParts, SentTyped
  <2>2. link' = [link EXCEPT ![sent[i].person] = u] /\ LinkedTo(u) \ {sent[i].person} = {}
    BY <1>3 DEF Settle, Blocked
  <2>. QED BY <1>1, <2>1, <2>2
<1>4. ASSUME NEW u \in Account, NEW p \in Person, NEW o \in Org, Connect(u, p, o)
      PROVE  OnePersonEach'
  <2>1. trying[u] = {<<p, o, "sole">>} /\ link' = [link EXCEPT ![p] = u]
    BY <1>4 DEF Connect, Connected
  <2>2. LinkedTo(u) = {}
    BY <2>1 DEF Safe, Relies, Holds
  <2>. QED BY <1>1, <2>1, <2>2
<1>. QED BY <1>2, <1>3, <1>4, LinkShape

(* An account is never two people (presby__accept_invitation_core, step 4; *)
(* presby_connect_signed_in_account, check 3).                             *)
THEOREM OnePersonEachHolds == Spec => []OnePersonEach
<1>1. Init => OnePersonEach
  BY DEF Init, OnePersonEach
<1>. QED BY <1>1, OnePersonStep, AlwaysSafe, PTL DEF Spec

(* Nobody is linked through an address that has left their record, and     *)
(* nobody already linked is linked anew.                                   *)
THEOREM LinkedThroughRecordHolds == Spec => LinkedThroughRecord
<1>. DEFINE Through == \A p \in Person : link'[p] # link[p] =>
              link[p] = NoAccount /\ account'[link'[p]].email \in emails[p]
<1>1. Safe /\ [Next]_vars => Through
  <2>. SUFFICES ASSUME TypeOK, Safe, [Next]_vars, NEW p \in Person, link'[p] # link[p]
                PROVE  link[p] = NoAccount /\ account'[link'[p]].email \in emails[p]
    BY DEF Safe
  <2>1. ASSUME NEW u \in Account, NEW i \in DOMAIN sent,
               Presentable(i), Settle(i, u), ~Blocked(i, u), account'[u].email = sent[i].to
        PROVE  link[p] = NoAccount /\ account'[link'[p]].email \in emails[p]
    <3>1. sent[i].person \in Person
      BY TypeParts, SentTyped
    <3>2. link' = [link EXCEPT ![sent[i].person] = u] /\ link[sent[i].person] \in {NoAccount, u}
      BY <2>1 DEF Settle, Blocked
    <3>3. p = sent[i].person /\ link'[p] = u
      BY <3>1, <3>2 DEF TypeOK
    <3>. QED BY <2>1, <3>2, <3>3 DEF Presentable
  <2>2. ASSUME NEW u \in Account, NEW q \in Person, NEW o \in Org, Connect(u, q, o)
        PROVE  link[p] = NoAccount /\ account'[link'[p]].email \in emails[p]
    <3>1. link' = [link EXCEPT ![q] = u] /\ trying[u] = {<<q, o, "sole">>} /\ account' = account
      BY <2>2 DEF Connect, Connected
    <3>2. p = q /\ link'[p] = u
      BY <3>1 DEF TypeOK
    <3>. QED BY <3>1, <3>2 DEF Safe, Sole
  <2>. QED BY <2>1, <2>2, LinkShape
<1>2. Through => [Through]_vars
  OBVIOUS
<1>. QED BY <1>1, AlwaysSafe, PTL DEF Spec, LinkedThroughRecord

(* No connection is committed over an open invitation to the account's     *)
(* address of a congregation the person has a membership at: check 4 was   *)
(* read under the lock of the one such congregation, and a send there      *)
(* waits for that lock.  An acceptance always leaves a mark in the         *)
(* invitations, so what leaves none is a connection.                       *)
THEOREM NotAskedAtHomeHolds == Spec => NotAskedAtHome
<1>. DEFINE AtHome == \A p \in Person : link'[p] # link[p] /\ sent' = sent =>
              \A i \in DOMAIN sent : Alive(i) /\ sent[i].to = account[link'[p]].email =>
                                     member[p][sent[i].org] = "none"
<1>1. Safe /\ [Next]_vars => AtHome
  <2>. SUFFICES ASSUME TypeOK, Safe, [Next]_vars, NEW p \in Person, link'[p] # link[p], sent' = sent,
                       NEW i \in DOMAIN sent, Alive(i), sent[i].to = account[link'[p]].email
                PROVE  member[p][sent[i].org] = "none"
    BY DEF Safe
  <2>1. ASSUME NEW u \in Account, NEW j \in DOMAIN sent, Presentable(j), Settle(j, u)
        PROVE  FALSE
    <3>1. sent[j].state = "open"
      BY <2>1 DEF Presentable, Alive, Open
    <3>2. sent[j] \in Invitation
      BY DEF TypeOK
    <3>3. sent'[j].state \in {"accepted", "blocked"}
      BY <2>1, <3>2 DEF Settle, Invitation
    <3>. QED BY <3>1, <3>3
  <2>2. ASSUME NEW u \in Account, NEW q \in Person, NEW o \in Org, Connect(u, q, o)
        PROVE  member[p][sent[i].org] = "none"
    <3>1. link' = [link EXCEPT ![q] = u] /\ trying[u] = {<<q, o, "sole">>}
      BY <2>2 DEF Connect, Connected
    <3>2. p = q /\ link'[p] = u
      BY <3>1 DEF TypeOK
    <3>3. sent[i].org # o
      BY <3>1, <3>2 DEF Safe, Relies, Holds
    <3>4. sent[i].org \in Org
      BY TypeParts, SentTyped DEF Invitation
    <3>. QED BY <3>1, <3>2, <3>3, <3>4 DEF Safe, Sole
  <2>. QED BY <2>1, <2>2, LinkShape
<1>. QED BY <1>1, AlwaysSafe, PTL DEF Spec, NotAskedAtHome
=================================================================================

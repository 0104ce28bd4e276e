---------------------------- MODULE EmailQueueProofs ----------------------------
(***************************************************************************)
(* Proofs about the email queue, for any number of messages and workers    *)
(* and any limits.                                                         *)
(*                                                                         *)
(* The code orders nothing: a worker may meet an unfinished inline send,   *)
(* outlive its lease, or find its row retried twice.  The theorems say     *)
(* what holds all the same: types and redaction, that a message is not     *)
(* given up early, that two workers meet only after a write went over      *)
(* another's row, and that what is over stays so.                          *)
(***************************************************************************)
EXTENDS EmailQueue, TLAPS

USE EmailAssumption, LimitAssumption

LEMMA LeastIs == ASSUME NEW m \in Nat, NEW n \in Nat PROVE Least(m, n) = m \/ Least(m, n) = n
BY DEF Least

Working(w) == worker[w].pc \in {"send", "record"}

(* What a claim returned of a row, which was then eligible.               *)
Took == [count: 0..MaxAttempts - 1, body: Body]

(* A worker in the middle of its rows, in terms the provers see through.   *)
TodoOK ==
  \A w \in Worker : Working(w) =>
    /\ DOMAIN worker[w].todo \subseteq Email
    /\ \A e \in DOMAIN worker[w].todo : worker[w].todo[e] \in Took
    /\ worker[w].pc = "record" =>
         worker[w].at \in DOMAIN worker[w].todo /\ worker[w].outcome \in Outcome

TypeInv == TypeOK /\ TodoOK

RetryReads(e) == \E a \in Request : RetryRead(a, e)
RetryWrites(e) == \E a \in Request : RetryWrite(a, e)


LEMMA RedactedTyped ==
  ASSUME NEW e \in Email, NEW r \in Row
  PROVE  /\ Redacted(e, r) \in Row
         /\ Redacted(e, r).status = r.status /\ Redacted(e, r).count = r.count
         /\ Redacted(e, r).stale = r.stale
         /\ e \in Credential => Redacted(e, r).body = "redacted"
<1>. DEFINE b == IF e \in Credential THEN "redacted" ELSE r.body
<1>1. b \in {"full", "redacted"} /\ (e \in Credential => b = "redacted")
  BY DEF Row
<1>2. Redacted(e, r) = [r EXCEPT !.body = b]
  BY DEF Redacted
<1>. HIDE DEF b
<1>. QED BY <1>1, <1>2 DEF Row

(* What a worker writes, and when that gives the row up.                   *)
LEMMA RecordedTyped ==
  ASSUME NEW e \in Email, NEW r \in Row, NEW count \in 1..MaxAttempts, NEW outcome \in Outcome
  PROVE  /\ Recorded(e, r, count, outcome) \in Row
         /\ Recorded(e, r, count, outcome).count = count
         /\ Recorded(e, r, count, outcome).status \in {"sent", "failed", "queued"}
         /\ Recorded(e, r, count, outcome).status = "failed" => count >= MaxAttempts
         /\ e \in Credential /\ Recorded(e, r, count, outcome).status # "queued" =>
              Recorded(e, r, count, outcome).body = "redacted"
<1>. DEFINE sent == [r EXCEPT !.status = "sent", !.count = count]
            failed == [r EXCEPT !.status = "failed", !.count = count]
            again == [r EXCEPT !.status = "queued", !.count = count, !.next = "later"]
<1>1. /\ sent \in Row /\ sent.status = "sent" /\ sent.count = count
      /\ failed \in Row /\ failed.status = "failed" /\ failed.count = count
      /\ again \in Row /\ again.status = "queued" /\ again.count = count
  <2>. count \in 0..MaxAttempts
    OBVIOUS
  <2>1. sent \in Row /\ sent.status = "sent" /\ sent.count = count
    BY DEF Row
  <2>2. failed \in Row /\ failed.status = "failed" /\ failed.count = count
    BY DEF Row
  <2>3. again \in Row /\ again.status = "queued" /\ again.count = count
    BY DEF Row
  <2>. QED BY <2>1, <2>2, <2>3
<1>. HIDE DEF sent, failed, again
<1>2. CASE outcome = "sent"
  <2>1. Recorded(e, r, count, outcome) = Redacted(e, sent)
    BY <1>2 DEF Recorded, sent
  <2>. QED BY <1>1, <2>1, RedactedTyped
<1>3. CASE outcome = "error" /\ count >= MaxAttempts
  <2>1. Recorded(e, r, count, outcome) = Redacted(e, failed)
    BY <1>3 DEF Recorded, failed
  <2>. QED BY <1>1, <1>3, <2>1, RedactedTyped
<1>4. CASE outcome = "error" /\ ~(count >= MaxAttempts)
  <2>1. Recorded(e, r, count, outcome) = again
    BY <1>4 DEF Recorded, again
  <2>. QED BY <1>1, <2>1
<1>. QED BY <1>2, <1>3, <1>4 DEF Outcome

LEMMA CountedTyped ==
  ASSUME NEW r \in Row, NEW count \in 0..MaxAttempts
  PROVE  /\ [r EXCEPT !.status = "queued", !.next = "due", !.count = count] \in Row
         /\ [r EXCEPT !.status = "queued", !.count = count, !.stale = FALSE, !.next = "later"] \in Row
         /\ [r EXCEPT !.status = "sent", !.count = count, !.stale = FALSE] \in Row
<1>1. [r EXCEPT !.status = "queued", !.next = "due", !.count = count] \in Row
  BY DEF Row
<1>2. [r EXCEPT !.status = "queued", !.count = count, !.stale = FALSE, !.next = "later"] \in Row
  BY DEF Row
<1>3. [r EXCEPT !.status = "sent", !.count = count, !.stale = FALSE] \in Row
  BY DEF Row
<1>. QED BY <1>1, <1>2, <1>3

LEMMA RowTyped ==
  ASSUME NEW r \in Row
  PROVE  /\ [r EXCEPT !.status = "processing", !.stale = FALSE] \in Row
         /\ [r EXCEPT !.status = "queued", !.next = "due"] \in Row
         /\ [r EXCEPT !.status = "cancelled"] \in Row
         /\ [r EXCEPT !.next = "due"] \in Row /\ [r EXCEPT !.stale = TRUE] \in Row
<1>1. [r EXCEPT !.status = "processing", !.stale = FALSE] \in Row
  BY DEF Row
<1>2. [r EXCEPT !.status = "queued", !.next = "due"] \in Row
  BY DEF Row
<1>3. [r EXCEPT !.status = "cancelled"] \in Row
  BY DEF Row
<1>4. [r EXCEPT !.next = "due"] \in Row
  BY DEF Row
<1>5. [r EXCEPT !.stale = TRUE] \in Row
  BY DEF Row
<1>. QED BY <1>1, <1>2, <1>3, <1>4, <1>5

LEMMA NewRowTyped == NoRow \in Row /\ [NoRow EXCEPT !.status = "queued"] \in Row
<1>1. 0 \in 0..MaxAttempts
  OBVIOUS
<1>2. NoRow \in Row
  BY <1>1 DEF NoRow, Row
<1>3. [NoRow EXCEPT !.status = "queued"] \in Row
  BY <1>2 DEF Row
<1>. QED BY <1>2, <1>3

LEMMA InitTyped == Init => TypeInv
<1>. SUFFICES ASSUME Init PROVE TypeInv
  OBVIOUS
<1>1. NoRow \in Row
  BY DEF NoRow, Row
<1>2. TypeOK
  BY <1>1 DEF Init, TypeOK, InlineState, WorkerState, Idle
<1>3. TodoOK
  BY DEF Init, TodoOK, Working, Idle
<1>. QED BY <1>2, <1>3 DEF TypeInv

LEMMA WriterTyped ==
  ASSUME TypeInv, NEW e \in Email,
         Insert(e) \/ InlineStep(e) \/ InlineCrash(e) \/ Cancel(e)
           \/ RetryReads(e) \/ RetryWrites(e) \/ BackoffElapses(e) \/ LeaseElapses(e)
  PROVE  TypeInv'
<1>1. row[e] \in Row
  BY DEF TypeInv, TypeOK
<1>2. TodoOK'
  <2>1. worker' = worker
    BY DEF Insert, InlineStep, InlineRead, InlineSend, InlineRecord, InlineCrash, Cancel,
           RetryReads, RetryRead, RetryWrites, RetryWrite, BackoffElapses, LeaseElapses
  <2>. QED BY <2>1 DEF TypeInv, TodoOK, Working
<1>3. row' \in [Email -> Row]
  <2>1. ASSUME NEW r \in Row, row' = [row EXCEPT ![e] = r] PROVE row' \in [Email -> Row]
    BY <2>1 DEF TypeInv, TypeOK
  <2>2. CASE Insert(e)
    BY <2>1, <2>2, NewRowTyped DEF Insert
  <2>3. CASE InlineStep(e)
    <3>1. CASE row' = row
      BY <3>1 DEF TypeInv, TypeOK
    <3>2. CASE InlineRecord(e)
      <4>1. 1 \in 0..MaxAttempts
        OBVIOUS
      <4>2. CASE inline[e].outcome = "sent"
        <5>1. [row[e] EXCEPT !.status = "sent", !.count = 1, !.stale = FALSE] \in Row
          BY <1>1, <4>1, CountedTyped
        <5>. QED BY <2>1, <3>2, <4>2, <5>1, RedactedTyped DEF InlineRecord
      <4>3. CASE inline[e].outcome # "sent"
        BY <1>1, <2>1, <3>2, <4>1, <4>3, CountedTyped DEF InlineRecord
      <4>. QED BY <4>2, <4>3
    <3>. QED BY <2>3, <3>1, <3>2 DEF InlineStep, InlineRead, InlineSend
  <2>4. CASE Cancel(e)
    <3>1. [row[e] EXCEPT !.status = "cancelled"] \in Row
      BY <1>1, RowTyped
    <3>. QED BY <2>1, <2>4, <3>1, RedactedTyped DEF Cancel
  <2>5. CASE RetryWrites(e)
    <3>1. 0 \in 0..MaxAttempts
      OBVIOUS
    <3>2. [row[e] EXCEPT !.status = "queued", !.next = "due", !.count = 0] \in Row
      BY <1>1, <3>1, CountedTyped
    <3>. QED BY <2>1, <2>5, <3>2 DEF RetryWrites, RetryWrite
  <2>6. CASE BackoffElapses(e) \/ LeaseElapses(e)
    <3>1. [row[e] EXCEPT !.next = "due"] \in Row /\ [row[e] EXCEPT !.stale = TRUE] \in Row
      BY <1>1, RowTyped
    <3>. QED BY <2>1, <2>6, <3>1 DEF BackoffElapses, LeaseElapses
  <2>7. CASE InlineCrash(e) \/ RetryReads(e)
    BY <2>7 DEF InlineCrash, RetryReads, RetryRead, TypeInv, TypeOK
  <2>. QED BY <2>2, <2>3, <2>4, <2>5, <2>6, <2>7
<1>4. inline' \in [Email -> InlineState]
  <2>1. /\ Idle \in InlineState /\ [pc |-> "read"] \in InlineState
        /\ \A body \in Body : [pc |-> "send", body |-> body] \in InlineState
        /\ \A body \in Body, outcome \in Outcome :
             [pc |-> "record", body |-> body, outcome |-> outcome] \in InlineState
    BY DEF InlineState
  <2>2. row[e].body \in Body /\ "full" \in Body
    BY <1>1 DEF Row, Body
  <2>3. inline[e].pc = "send" => inline[e].body \in Body
    <3>1. inline[e] \in InlineState
      BY DEF TypeInv, TypeOK
    <3>. QED BY <3>1 DEF InlineState, Idle
  <2>4. inline' = inline \/ \E s \in InlineState : inline' = [inline EXCEPT ![e] = s]
    <3>1. CASE Insert(e)
      BY <2>1, <2>2, <3>1 DEF Insert
    <3>2. CASE InlineRead(e)
      BY <2>1, <2>2, <3>2 DEF InlineRead
    <3>3. CASE InlineSend(e)
      <4>1. PICK outcome \in Outcome :
              inline' = [inline EXCEPT ![e] = [pc |-> "record", body |-> inline[e].body, outcome |-> outcome]]
        BY <3>3 DEF InlineSend, TypeInv, TypeOK
      <4>. QED BY <2>1, <2>3, <3>3, <4>1 DEF InlineSend
    <3>4. CASE InlineRecord(e) \/ InlineCrash(e)
      BY <2>1, <3>4 DEF InlineRecord, InlineCrash
    <3>. QED BY <3>1, <3>2, <3>3, <3>4 DEF InlineStep, Cancel, RetryReads, RetryRead, RetryWrites,
                RetryWrite, BackoffElapses, LeaseElapses
  <2>. QED BY <2>4 DEF TypeInv, TypeOK
<1>5. /\ worker' = worker
      /\ tries' \in [Email -> 0..2 * MaxAttempts]
  BY DEF history, Insert, InlineStep, InlineRead, InlineSend, InlineRecord, InlineCrash, Cancel,
         RetryReads, RetryRead, RetryWrites, RetryWrite, BackoffElapses, LeaseElapses, Attempt, TypeInv, TypeOK, Least
<1>6. /\ retry' \in [Request -> SUBSET Email]
      /\ retried' \subseteq Email /\ late' \subseteq Email
  BY DEF Insert, InlineStep, InlineRead, InlineSend, InlineRecord, InlineCrash, Cancel,
         RetryReads, RetryRead, RetryWrites, RetryWrite, BackoffElapses, LeaseElapses, history,
         TypeInv, TypeOK
<1>. QED BY <1>2, <1>3, <1>4, <1>5, <1>6 DEF TypeInv, TypeOK

LEMMA WorkerTyped ==
  ASSUME TypeInv, NEW w \in Worker, WorkerStep(w) \/ WorkerCrash(w)
  PROVE  TypeInv'
<1>. DEFINE Rest == /\ inline' \in [Email -> InlineState]
                    /\ retry' \in [Request -> SUBSET Email]
                    /\ retried' \subseteq Email /\ late' \subseteq Email
                    /\ tries' \in [Email -> 0..2 * MaxAttempts]
            Put(x) == worker' = [worker EXCEPT ![w] = x]
<1>1. Rest
  <2>1. UNCHANGED <<inline, retry, retried>> /\ (late' = late \/ Recover(w))
    BY DEF WorkerStep, Recover, Claim, Send, Record, WorkerCrash, history
  <2>2. tries' \in [Email -> 0..2 * MaxAttempts]
    <3>1. CASE tries' = tries
      BY <3>1 DEF TypeInv, TypeOK
    <3>2. CASE Send(w)
      <4>1. PICK e : tries' = [tries EXCEPT ![e] = Least(@ + 1, 2 * MaxAttempts)]
        BY <3>2 DEF Send, Attempt
      <4>2. ASSUME NEW n \in 0..2 * MaxAttempts PROVE Least(n + 1, 2 * MaxAttempts) \in 0..2 * MaxAttempts
        BY DEF Least
      <4>. QED BY <4>1, <4>2 DEF TypeInv, TypeOK
    <3>. QED BY <3>1, <3>2 DEF WorkerStep, Recover, Claim, Record, WorkerCrash, history
  <2>3. late' \subseteq Email
    BY <2>1 DEF Recover, TypeInv, TypeOK
  <2>. QED BY <2>1, <2>2, <2>3 DEF TypeInv, TypeOK
<1>2. ASSUME NEW x \in {Idle, [pc |-> "claim"]}, Put(x)
      PROVE  worker' \in [Worker -> WorkerState] /\ TodoOK'
  BY <1>2 DEF TypeInv, TypeOK, TodoOK, Working, WorkerState, Idle
<1>3. ASSUME NEW es \in SUBSET Email, NEW todo \in [es -> Took],
             Put([pc |-> "send", todo |-> todo])
      PROVE  worker' \in [Worker -> WorkerState] /\ TodoOK'
  <2>1. todo \in Todo
    BY DEF Todo, Took
  <2>2. [pc |-> "send", todo |-> todo] \in WorkerState
    BY <2>1 DEF WorkerState
  <2>. HIDE DEF Todo
  <2>. QED BY <1>3, <2>2 DEF TypeInv, TypeOK, TodoOK, Working
<1>4. ASSUME NEW es \in SUBSET Email, NEW todo \in [es -> Took],
             NEW e \in es, NEW outcome \in Outcome,
             Put([pc |-> "record", todo |-> todo, at |-> e, outcome |-> outcome])
      PROVE  worker' \in [Worker -> WorkerState] /\ TodoOK'
  <2>1. todo \in Todo /\ e \in Email
    BY DEF Todo, Took
  <2>2. [pc |-> "record", todo |-> todo, at |-> e, outcome |-> outcome] \in WorkerState
    BY <2>1 DEF WorkerState
  <2>. QED BY <1>4, <2>2 DEF TypeInv, TypeOK, TodoOK, Working
<1>5. CASE Recover(w)
  <2>1. row' \in [Email -> Row]
    <3>1. \A e \in Email : row[e] \in Row /\ [row[e] EXCEPT !.status = "queued", !.next = "due"] \in Row
      BY RowTyped DEF TypeInv, TypeOK
    <3>. QED BY <1>5, <3>1 DEF Recover
  <2>2. Put([pc |-> "claim"])
    BY <1>5 DEF Recover
  <2>. QED BY <1>1, <1>2, <2>1, <2>2 DEF TypeInv, TypeOK
<1>6. CASE Claim(w)
  <2>1. PICK taken \in SUBSET {e \in Email : Eligible(e)} :
          /\ row' = [e \in Email |->
               IF e \in taken THEN [row[e] EXCEPT !.status = "processing", !.stale = FALSE] ELSE row[e]]
          /\ Put(IF taken = {} THEN Idle
                 ELSE [pc |-> "send", todo |-> [e \in taken |-> Taken(e)]])
    BY <1>6 DEF Claim
  <2>2. row' \in [Email -> Row]
    <3>1. \A e \in Email : /\ row[e] \in Row
                           /\ [row[e] EXCEPT !.status = "processing", !.stale = FALSE] \in Row
      BY RowTyped DEF TypeInv, TypeOK
    <3>. QED BY <2>1, <3>1
  <2>3. [e \in taken |-> Taken(e)] \in [taken -> Took]
    <3>1. \A e \in Email : Eligible(e) => Taken(e) \in Took
      BY DEF Eligible, Taken, Took, Body, TypeInv, TypeOK, Row
    <3>. QED BY <3>1
  <2>4. taken \in SUBSET Email
    OBVIOUS
  <2>5. CASE taken = {}
    BY <1>1, <1>2, <2>1, <2>2, <2>5 DEF TypeInv, TypeOK
  <2>6. CASE taken # {}
    BY <1>1, <1>3, <2>1, <2>2, <2>3, <2>4, <2>6 DEF TypeInv, TypeOK
  <2>. QED BY <2>5, <2>6
<1>7. CASE Send(w)
  <2>1. PICK e \in DOMAIN worker[w].todo, outcome \in Outcome :
          Put([pc |-> "record", todo |-> worker[w].todo, at |-> e, outcome |-> outcome])
    BY <1>7 DEF Send, TypeInv, TypeOK
  <2>. DEFINE es == DOMAIN worker[w].todo
  <2>2. worker[w] \in [pc : {"send"}, todo : Todo]
    BY <1>7 DEF Send, TypeInv, TypeOK, WorkerState, Idle
  <2>3. es \in SUBSET Email /\ worker[w].todo \in [es -> Took]
    BY <1>7, <2>2 DEF Send, TypeInv, TodoOK, Working, Todo
  <2>4. row' = row
    BY <1>7 DEF Send
  <2>. QED BY <1>1, <1>4, <2>1, <2>3, <2>4 DEF TypeInv, TypeOK
<1>8. CASE Record(w)
  <2>. DEFINE e == worker[w].at
              left == DOMAIN worker[w].todo \ {e}
  <2>1. /\ DOMAIN worker[w].todo \subseteq Email /\ e \in DOMAIN worker[w].todo
        /\ \A f \in DOMAIN worker[w].todo : worker[w].todo[f] \in Took
        /\ worker[w].outcome \in Outcome
    BY <1>8 DEF Record, TypeInv, TodoOK, Working
  <2>2. row' \in [Email -> Row]
    <3>1. worker[w].todo[e].count + 1 \in 1..MaxAttempts /\ row[e] \in Row /\ e \in Email
      BY <2>1 DEF TypeInv, TypeOK, Took
    <3>2. Recorded(e, row[e], worker[w].todo[e].count + 1, worker[w].outcome) \in Row
      BY <2>1, <3>1, RecordedTyped
    <3>. QED BY <1>8, <3>2 DEF Record, TypeInv, TypeOK
  <2>3. CASE left = {}
    BY <1>1, <1>2, <1>8, <2>2, <2>3 DEF Record, TypeInv, TypeOK
  <2>4. CASE left # {}
    <3>1. Put([pc |-> "send", todo |-> [f \in left |-> worker[w].todo[f]]])
      BY <1>8, <2>4 DEF Record, TypeInv, TypeOK
    <3>2. left \in SUBSET Email /\ [f \in left |-> worker[w].todo[f]] \in [left -> Took]
      BY <2>1
    <3>. QED BY <1>1, <1>3, <2>2, <3>1, <3>2 DEF TypeInv, TypeOK
  <2>. QED BY <2>3, <2>4
<1>9. CASE WorkerCrash(w)
  BY <1>1, <1>2, <1>9 DEF WorkerCrash, TypeInv, TypeOK
<1>. QED BY <1>5, <1>6, <1>7, <1>8, <1>9 DEF WorkerStep

(* The steps of the queue by the row they are about: Next in the form the  *)
(* proofs take it apart.                                                   *)
LEMMA Steps ==
  ASSUME [Next]_vars
  PROVE  \/ \E e \in Email : \/ Insert(e) \/ InlineStep(e) \/ InlineCrash(e) \/ Cancel(e)
                              \/ RetryReads(e) \/ RetryWrites(e) \/ BackoffElapses(e) \/ LeaseElapses(e)
         \/ \E w \in Worker : WorkerStep(w) \/ WorkerCrash(w)
         \/ \E a \in Request : RetryCrash(a)
         \/ UNCHANGED vars
BY DEF Next, TimePasses, RetryReads, RetryWrites

LEMMA StepTyped == TypeInv /\ [Next]_vars => TypeInv'
<1>1. TypeInv /\ UNCHANGED vars => TypeInv'
  BY DEF TypeInv, TypeOK, TodoOK, Working, vars, history
<1>2. ASSUME TypeInv, NEW a \in Request, RetryCrash(a) PROVE TypeInv'
  BY <1>2 DEF RetryCrash, TypeInv, TypeOK, TodoOK, Working, history
<1>. QED BY <1>1, <1>2, Steps, WriterTyped, WorkerTyped

(* The invariant of the queue: every variable has its type, and the rows a *)
(* worker has claimed were eligible (processQueueBatch, sendQueuedRow).    *)
THEOREM TypeInvHolds == Spec => []TypeInv
<1>. QED BY InitTyped, StepTyped, PTL DEF Spec

(* Every variable keeps its type, whoever overlaps: a body is never null   *)
(* and no count passes max_attempts (email_queue).                         *)
THEOREM Typing == Spec => []TypeOK
<1>1. TypeInv => TypeOK
  BY DEF TypeInv
<1>. QED BY <1>1, TypeInvHolds, PTL

LEMMA LinksStep == TypeInv /\ LinksRedacted /\ [Next]_vars => LinksRedacted'
<1>. SUFFICES ASSUME TypeInv, LinksRedacted, [Next]_vars, NEW c \in Credential,
                     row'[c].status \in {"sent", "failed", "cancelled"}
              PROVE  row'[c].body = "redacted"
  BY DEF LinksRedacted
<1>1. c \in Email /\ row[c] \in Row
  BY DEF TypeInv, TypeOK
<1>2. CASE row'[c] = row[c]
  BY <1>2 DEF LinksRedacted
<1>4. ASSUME NEW e \in Email,
             Insert(e) \/ RetryWrites(e) \/ BackoffElapses(e) \/ LeaseElapses(e)
      PROVE  row'[c] = row[c] \/ row'[c].status \in {"queued", "processing"}
  <2>1. row[e] \in Row
    BY DEF TypeInv, TypeOK
  <2>2. CASE e = c
    <3>1. CASE Insert(c)
      BY <1>1, <3>1, NewRowTyped DEF Insert, TypeInv, TypeOK, NoRow
    <3>2. CASE RetryWrites(c)
      BY <1>1, <3>2 DEF RetryWrites, RetryWrite, TypeInv, TypeOK, Row
    <3>3. CASE BackoffElapses(c)
      BY <1>1, <3>3 DEF BackoffElapses, TypeInv, TypeOK, Row
    <3>4. CASE LeaseElapses(c)
      BY <1>1, <3>4 DEF LeaseElapses, TypeInv, TypeOK, Row
    <3>. QED BY <1>4, <2>2, <3>1, <3>2, <3>3, <3>4
  <2>3. CASE e # c
    BY <1>1, <1>4, <2>3 DEF Insert, RetryWrites, RetryWrite, BackoffElapses, LeaseElapses, TypeInv, TypeOK
  <2>. QED BY <2>2, <2>3
<1>5. ASSUME NEW e \in Email, InlineRecord(e)
      PROVE  row'[c] = row[c] \/ row'[c].status = "queued" \/ row'[c].body = "redacted"
  <2>1. row[e] \in Row
    BY DEF TypeInv, TypeOK
  <2>2. CASE e = c /\ inline[e].outcome = "sent"
    <3>1. 1 \in 0..MaxAttempts
      OBVIOUS
    <3>2. [row[c] EXCEPT !.status = "sent", !.count = 1, !.stale = FALSE] \in Row
      BY <1>1, <3>1, CountedTyped
    <3>3. row'[c] = Redacted(c, [row[c] EXCEPT !.status = "sent", !.count = 1, !.stale = FALSE])
      BY <1>1, <1>5, <2>2 DEF InlineRecord, TypeInv, TypeOK
    <3>. QED BY <1>1, <3>2, <3>3, RedactedTyped
  <2>3. CASE e = c /\ inline[e].outcome # "sent"
    BY <1>1, <1>5, <2>3 DEF InlineRecord, TypeInv, TypeOK, Row
  <2>4. CASE e # c
    BY <1>1, <1>5, <2>4 DEF InlineRecord, TypeInv, TypeOK
  <2>. QED BY <2>2, <2>3, <2>4
<1>6. ASSUME NEW e \in Email, Cancel(e) PROVE row'[c] = row[c] \/ row'[c].body = "redacted"
  <2>1. CASE e = c
    <3>1. [row[c] EXCEPT !.status = "cancelled"] \in Row
      BY <1>1, RowTyped
    <3>2. row'[c] = Redacted(c, [row[c] EXCEPT !.status = "cancelled"])
      BY <1>1, <1>6, <2>1 DEF Cancel, TypeInv, TypeOK
    <3>. QED BY <1>1, <3>1, <3>2, RedactedTyped
  <2>2. CASE e # c
    BY <1>1, <1>6, <2>2 DEF Cancel, TypeInv, TypeOK
  <2>. QED BY <2>1, <2>2
<1>7. ASSUME NEW w \in Worker, Recover(w) \/ Claim(w)
      PROVE  row'[c] = row[c] \/ row'[c].status \in {"queued", "processing"}
  <2>1. /\ [row[c] EXCEPT !.status = "queued", !.next = "due"].status = "queued"
        /\ [row[c] EXCEPT !.status = "processing", !.stale = FALSE].status = "processing"
    BY <1>1 DEF Row
  <2>2. CASE Recover(w)
    BY <1>1, <2>1, <2>2 DEF Recover
  <2>3. CASE Claim(w)
    <3>1. PICK taken : row' = [e \in Email |-> IF e \in taken
                THEN [row[e] EXCEPT !.status = "processing", !.stale = FALSE] ELSE row[e]]
      BY <2>3 DEF Claim
    <3>. QED BY <1>1, <2>1, <3>1
  <2>. QED BY <1>7, <2>2, <2>3
<1>8. ASSUME NEW w \in Worker, Record(w)
      PROVE  row'[c] = row[c] \/ row'[c].status = "queued" \/ row'[c].body = "redacted"
  <2>. DEFINE e == worker[w].at
  <2>1. /\ e \in Email /\ worker[w].todo[e].count + 1 \in 1..MaxAttempts
        /\ worker[w].outcome \in Outcome
    BY <1>8 DEF Record, TypeInv, TodoOK, Working, Took
  <2>2. row' = [row EXCEPT ![e] = Recorded(e, @, worker[w].todo[e].count + 1, worker[w].outcome)]
    BY <1>8 DEF Record
  <2>3. CASE e = c
    <3>1. row'[c] = Recorded(c, row[c], worker[w].todo[e].count + 1, worker[w].outcome)
      BY <1>1, <2>2, <2>3 DEF TypeInv, TypeOK
    <3>. QED BY <1>1, <2>1, <3>1, RecordedTyped
  <2>4. CASE e # c
    BY <1>1, <2>2, <2>4 DEF TypeInv, TypeOK
  <2>. QED BY <2>3, <2>4
<1>9. CASE row' = row
  BY <1>2, <1>9
<1>10. row' = row \/ (\E e \in Email : \/ Insert(e) \/ InlineRecord(e) \/ Cancel(e) \/ RetryWrites(e)
                                       \/ BackoffElapses(e) \/ LeaseElapses(e))
                 \/ \E w \in Worker : Recover(w) \/ Claim(w) \/ Record(w)
  BY Steps DEF InlineStep, InlineRead, InlineSend, InlineCrash, RetryReads, RetryRead, RetryCrash,
               WorkerStep, Send, WorkerCrash, vars
<1>. QED BY <1>2, <1>4, <1>5, <1>6, <1>7, <1>8, <1>9, <1>10

(* A row that is over carries no one-time link, whatever overlaps, and     *)
(* though a cancelled row may be queued again (lib/email/queue.ts,         *)
(* redactionFor in each update that ends a row).                           *)
THEOREM LinksRedactedHolds == Spec => []LinksRedacted
<1>1. Init => LinksRedacted
  BY DEF Init, LinksRedacted, NoRow
<1>. QED BY <1>1, LinksStep, TypeInvHolds, PTL DEF Spec

-------------------------------------------------------------------------------
(* One worker a row.  As long as no write went over the row of another, a  *)
(* row in a worker's hands is in processing, and so not to be claimed.     *)

Mine(e) ==
  /\ \A w \in Worker : Holds(w, e) => row[e].status = "processing"
  /\ \A v, w \in Worker : Holds(v, e) /\ Holds(w, e) => v = w

MineUnlessLate == \A e \in Email \ late : Mine(e)

LEMMA LateGrows == ASSUME [Next]_vars PROVE late \subseteq late'
BY Steps DEF Insert, InlineStep, InlineRead, InlineSend, InlineRecord, InlineCrash, Cancel,
             RetryReads, RetryRead, RetryWrites, RetryWrite, RetryCrash, BackoffElapses, LeaseElapses,
             WorkerStep, Recover, Claim, Send, Record, WorkerCrash, vars, history

(* Who is not a worker writes a row in processing only to say that its     *)
(* lease has run out, or late.                                             *)
LEMMA WriterLeavesMine ==
  ASSUME TypeInv, NEW m \in Email \ late', Mine(m), NEW e \in Email,
         \/ Insert(e) \/ InlineStep(e) \/ InlineCrash(e) \/ Cancel(e)
         \/ RetryReads(e) \/ RetryWrites(e) \/ BackoffElapses(e) \/ LeaseElapses(e)
  PROVE  Mine(m)'
<1>1. worker' = worker
  BY DEF Insert, InlineStep, InlineRead, InlineSend, InlineRecord, InlineCrash, Cancel,
         RetryReads, RetryRead, RetryWrites, RetryWrite, BackoffElapses, LeaseElapses
<1>2. row[m].status = "processing" => row'[m].status = "processing"
  <2>. SUFFICES ASSUME row[m].status = "processing" PROVE row'[m].status = "processing"
    OBVIOUS
  <2>1. row[m] \in Row
    BY DEF TypeInv, TypeOK
  <2>2. CASE LeaseElapses(e)
    BY <2>1, <2>2 DEF LeaseElapses, TypeInv, TypeOK, Row
  <2>3. CASE ~LeaseElapses(e)
    BY <2>1, <2>3 DEF Insert, InlineStep, InlineRead, InlineSend, InlineRecord, InlineCrash, Cancel,
         RetryReads, RetryRead, RetryWrites, RetryWrite, BackoffElapses, TypeInv, TypeOK
  <2>. QED BY <2>2, <2>3
<1>. QED BY <1>1, <1>2 DEF Mine, Holds

LEMMA WorkerLeavesMine ==
  ASSUME TypeInv, NEW m \in Email \ late', Mine(m), NEW w \in Worker, WorkerStep(w) \/ WorkerCrash(w)
  PROVE  Mine(m)'
<1>1. \A v \in Worker \ {w} : worker'[v] = worker[v]
  BY DEF WorkerStep, Recover, Claim, Send, Record, WorkerCrash, TypeInv, TypeOK
<1>2. row[m] \in Row
  BY DEF TypeInv, TypeOK
<1>3. CASE Recover(w)
  <2>1. Holds(w, m)' => Holds(w, m)
    BY <1>3 DEF Recover, Holds, TypeInv, TypeOK
  <2>2. (\E v \in Worker : Holds(v, m)) => row'[m] = row[m]
    BY <1>3 DEF Recover
  <2>. QED BY <1>1, <2>1, <2>2 DEF Mine, Holds
<1>4. CASE Claim(w)
  <2>1. PICK taken \in SUBSET {e \in Email : Eligible(e)} :
          /\ row' = [e \in Email |->
               IF e \in taken THEN [row[e] EXCEPT !.status = "processing", !.stale = FALSE] ELSE row[e]]
          /\ worker' = [worker EXCEPT ![w] =
               IF taken = {} THEN Idle
               ELSE [pc |-> "send", todo |-> [e \in taken |-> Taken(e)]]]
    BY <1>4 DEF Claim
  <2>2. ~Holds(w, m) /\ (Holds(w, m)' => m \in taken)
    BY <1>4, <2>1 DEF Claim, Holds, Idle, TypeInv, TypeOK
  <2>3. m \in taken => row'[m].status = "processing" /\ \A v \in Worker : ~Holds(v, m)
    BY <1>2, <2>1 DEF Mine, Eligible, Row
  <2>4. m \notin taken => row'[m] = row[m]
    BY <2>1
  <2>. QED BY <1>1, <2>2, <2>3, <2>4 DEF Mine, Holds
<1>5. CASE Send(w) \/ WorkerCrash(w)
  <2>1. Holds(w, m)' => Holds(w, m)
    BY <1>5 DEF Send, WorkerCrash, Holds, Idle, TypeInv, TypeOK
  <2>2. row' = row
    BY <1>5 DEF Send, WorkerCrash
  <2>. QED BY <1>1, <2>1, <2>2 DEF Mine, Holds
<1>6. CASE Record(w)
  <2>. DEFINE e == worker[w].at
  <2>1. e \in DOMAIN worker[w].todo /\ worker[w].pc = "record"
    BY <1>6 DEF Record, TypeInv, TodoOK, Working
  <2>2. Holds(w, m)' => Holds(w, m) /\ m # e
    BY <1>6 DEF Record, Holds, Idle, TypeInv, TypeOK
  <2>3. m # e => row'[m] = row[m]
    BY <1>6 DEF Record, TypeInv, TypeOK
  <2>4. m = e => \A v \in Worker : Holds(v, m) => v = w
    BY <2>1 DEF Mine, Holds
  <2>. QED BY <1>1, <2>2, <2>3, <2>4 DEF Mine, Holds
<1>. QED BY <1>3, <1>4, <1>5, <1>6 DEF WorkerStep

LEMMA MineStep == TypeInv /\ MineUnlessLate /\ [Next]_vars => MineUnlessLate'
<1>. SUFFICES ASSUME TypeInv, MineUnlessLate, [Next]_vars, NEW m \in Email \ late'
              PROVE  Mine(m)'
  BY DEF MineUnlessLate
<1>1. Mine(m)
  BY LateGrows DEF MineUnlessLate
<1>2. CASE UNCHANGED vars \/ \E a \in Request : RetryCrash(a)
  BY <1>1, <1>2 DEF Mine, Holds, RetryCrash, vars, history
<1>. QED BY <1>1, <1>2, Steps, WriterLeavesMine, WorkerLeavesMine

(* Two workers have one row only after a write went over the one that had  *)
(* it (sendQueuedRow, retryEmailAction, the recovery of leases): claims    *)
(* alone never overlap (processQueueBatch).                                *)
THEOREM OneWorkerHolds == Spec => []OneWorker
<1>1. Init => MineUnlessLate
  BY DEF Init, MineUnlessLate, Mine, Holds, Idle
<1>2. MineUnlessLate => OneWorker
  BY DEF MineUnlessLate, Mine, OneWorker
<1>. QED BY <1>1, <1>2, MineStep, TypeInvHolds, PTL DEF Spec

-------------------------------------------------------------------------------
(* What is over, and in nobody's hands, is not taken up again.             *)

LEMMA OverStays ==
  ASSUME TypeInv, [Next]_vars, NEW m \in Email, Over(m), ~Attended(m)
  PROVE  row'[m] = row[m] /\ ~Attended(m)'
<1>1. /\ inline[m].pc = "idle" /\ \A w \in Worker : ~Holds(w, m)
      /\ \A a \in Request : m \notin retry[a]
      /\ row[m].status \in {"sent", "cancelled", "failed"}
      /\ row[m].status = "failed" => m \in Credential
  BY DEF Attended, Over
<1>2. ASSUME NEW e \in Email,
             \/ Insert(e) \/ InlineStep(e) \/ InlineCrash(e) \/ Cancel(e)
             \/ RetryReads(e) \/ RetryWrites(e) \/ BackoffElapses(e) \/ LeaseElapses(e)
      PROVE  row'[m] = row[m] /\ ~Attended(m)'
  <2>1. worker' = worker
    BY <1>2 DEF Insert, InlineStep, InlineRead, InlineSend, InlineRecord, InlineCrash, Cancel,
           RetryReads, RetryRead, RetryWrites, RetryWrite, BackoffElapses, LeaseElapses
  <2>2. row'[m] = row[m] /\ inline'[m] = inline[m]
    BY <1>1, <1>2 DEF Insert, InlineStep, InlineRead, InlineSend, InlineRecord, InlineCrash, Cancel,
         RetryReads, RetryRead, RetryWrites, RetryWrite, BackoffElapses, LeaseElapses, TypeInv, TypeOK
  <2>3. \A a \in Request : m \notin retry'[a]
    BY <1>1, <1>2 DEF Insert, InlineStep, InlineRead, InlineSend, InlineRecord, InlineCrash, Cancel,
         RetryReads, RetryRead, RetryWrites, RetryWrite, BackoffElapses, LeaseElapses, TypeInv, TypeOK
  <2>. QED BY <1>1, <2>1, <2>2, <2>3 DEF Attended, Holds
<1>3. ASSUME NEW w \in Worker, WorkerStep(w) \/ WorkerCrash(w)
      PROVE  row'[m] = row[m] /\ ~Attended(m)'
  <2>1. UNCHANGED <<inline, retry>> /\ \A v \in Worker \ {w} : worker'[v] = worker[v]
    BY <1>3 DEF WorkerStep, Recover, Claim, Send, Record, WorkerCrash, TypeInv, TypeOK
  <2>2. row'[m] = row[m] /\ ~Holds(w, m)'
    <3>1. CASE Recover(w)
      BY <1>1, <3>1 DEF Recover, Expired, Holds, TypeInv, TypeOK
    <3>2. CASE Claim(w)
      <4>1. PICK taken \in SUBSET {e \in Email : Eligible(e)} :
              /\ row' = [e \in Email |->
                   IF e \in taken THEN [row[e] EXCEPT !.status = "processing", !.stale = FALSE] ELSE row[e]]
              /\ worker' = [worker EXCEPT ![w] =
                   IF taken = {} THEN Idle
                   ELSE [pc |-> "send", todo |-> [e \in taken |-> Taken(e)]]]
        BY <3>2 DEF Claim
      <4>2. m \notin taken
        BY <1>1 DEF Eligible
      <4>. QED BY <4>1, <4>2 DEF Holds, Idle, TypeInv, TypeOK
    <3>3. CASE Send(w) \/ WorkerCrash(w)
      BY <1>1, <3>3 DEF Send, WorkerCrash, Holds, Idle, TypeInv, TypeOK
    <3>4. CASE Record(w)
      <4>1. worker[w].at # m
        BY <1>1, <3>4 DEF Record, Holds, TypeInv, TodoOK, Working
      <4>. QED BY <1>1, <3>4, <4>1 DEF Record, Holds, Idle, TypeInv, TypeOK
    <3>. QED BY <1>3, <3>1, <3>2, <3>3, <3>4 DEF WorkerStep
  <2>. QED BY <1>1, <2>1, <2>2 DEF Attended, Holds
<1>4. CASE UNCHANGED vars
  BY <1>1, <1>4 DEF Attended, Holds, vars
<1>5. ASSUME NEW a \in Request, RetryCrash(a) PROVE row'[m] = row[m] /\ ~Attended(m)'
  BY <1>1, <1>5 DEF RetryCrash, Attended, Holds, TypeInv, TypeOK
<1>. QED BY <1>2, <1>3, <1>4, <1>5, Steps

(* A message that is over and in nobody's hands is never taken up again,   *)
(* and an invitation that failed is over, too (retryEmailAction refuses    *)
(* it): no lease, no retry and no claim revives it (queue.ts, actions.ts). *)
THEOREM OverForGoodHolds == Spec => OverForGood
<1>1. TypeInv /\ [Next]_vars =>
        [\A e \in Email : Over(e) /\ ~Attended(e) => row'[e] = row[e] /\ ~Attended(e)']_vars
  BY OverStays
<1>. QED BY <1>1, TypeInvHolds, PTL DEF Spec, OverForGood

-------------------------------------------------------------------------------
(* What is sent.  As long as no write went over the row of another, a row  *)
(* that is not over has its body, and so have the copies of it: a row is   *)
(* redacted by the write that ends it, and nothing takes it up again.      *)

Full(e) ==
  /\ row[e].status \in {"queued", "processing"} \/ e \notin Credential => row[e].body = "full"
  /\ inline[e].pc \in {"send", "record"} => inline[e].body = "full"
  /\ \A w \in Worker : Holds(w, e) => worker[w].todo[e].body = "full"
  /\ \A a \in Request : e \in retry[a] => e \notin Credential

FullUnlessLate == \A e \in Email \ late : Full(e)

LEMMA RedactedBody ==
  ASSUME NEW e \in Email, NEW r \in Row, e \notin Credential
  PROVE  Redacted(e, r).body = r.body
<1>1. Redacted(e, r) = [r EXCEPT !.body = r.body]
  BY DEF Redacted
<1>. QED BY <1>1 DEF Row

LEMMA RecordedBody ==
  ASSUME NEW e \in Email, NEW r \in Row, NEW count \in 1..MaxAttempts, NEW outcome \in Outcome,
         Recorded(e, r, count, outcome).status = "queued" \/ e \notin Credential
  PROVE  Recorded(e, r, count, outcome).body = r.body
<1>. DEFINE sent == [r EXCEPT !.status = "sent", !.count = count]
            failed == [r EXCEPT !.status = "failed", !.count = count]
            again == [r EXCEPT !.status = "queued", !.count = count, !.next = "later"]
<1>0. count \in 0..MaxAttempts
  OBVIOUS
<1>1. sent \in Row /\ sent.status = "sent" /\ sent.body = r.body
  BY <1>0 DEF Row
<1>2. failed \in Row /\ failed.status = "failed" /\ failed.body = r.body
  BY <1>0 DEF Row
<1>3. again.body = r.body
  BY DEF Row
<1>. HIDE DEF sent, failed, again
<1>4. CASE outcome = "sent"
  <2>1. Recorded(e, r, count, outcome) = Redacted(e, sent)
    BY <1>4 DEF Recorded, sent
  <2>. QED BY <1>1, <2>1, RedactedTyped, RedactedBody
<1>5. CASE outcome = "error" /\ count >= MaxAttempts
  <2>1. Recorded(e, r, count, outcome) = Redacted(e, failed)
    BY <1>5 DEF Recorded, failed
  <2>. QED BY <1>2, <2>1, RedactedTyped, RedactedBody
<1>6. CASE outcome = "error" /\ ~(count >= MaxAttempts)
  BY <1>3, <1>6 DEF Recorded, again
<1>. QED BY <1>4, <1>5, <1>6 DEF Outcome

(* A step of the writer, the administrator or of time.                     *)
LEMMA WriterLeavesFull ==
  ASSUME TypeInv, NEW m \in Email \ late', Full(m), NEW e \in Email,
         \/ Insert(e) \/ InlineStep(e) \/ InlineCrash(e) \/ Cancel(e)
         \/ RetryReads(e) \/ RetryWrites(e) \/ BackoffElapses(e) \/ LeaseElapses(e)
  PROVE  Full(m)'
<1>. DEFINE RowFull == row[m].status \in {"queued", "processing"} \/ m \notin Credential => row[m].body = "full"
<1>1. worker' = worker
  BY DEF Insert, InlineStep, InlineRead, InlineSend, InlineRecord, InlineCrash, Cancel,
         RetryReads, RetryRead, RetryWrites, RetryWrite, BackoffElapses, LeaseElapses
<1>2. row[m] \in Row
  BY DEF TypeInv, TypeOK
<1>3. inline'[m].pc \in {"send", "record"} => inline'[m].body = "full"
  <2>1. CASE e # m
    <3>1. inline'[m] = inline[m]
      BY <2>1 DEF Insert, InlineStep, InlineRead, InlineSend, InlineRecord, InlineCrash, Cancel,
           RetryReads, RetryRead, RetryWrites, RetryWrite, BackoffElapses, LeaseElapses, TypeInv, TypeOK
    <3>. QED BY <3>1 DEF Full
  <2>2. CASE e = m
    BY <2>2 DEF Full, Insert, InlineStep, InlineRead, InlineSend, InlineRecord, InlineCrash, Cancel, Idle,
         RetryReads, RetryRead, RetryWrites, RetryWrite, BackoffElapses, LeaseElapses, TypeInv, TypeOK
  <2>. QED BY <2>1, <2>2
<1>4. \A a \in Request : m \in retry'[a] => m \notin Credential
  BY DEF Full, Insert, InlineStep, InlineRead, InlineSend, InlineRecord, InlineCrash, Cancel,
         RetryReads, RetryRead, RetryWrites, RetryWrite, BackoffElapses, LeaseElapses, TypeInv, TypeOK
<1>5. RowFull'
  <2>1. CASE row'[m] = row[m]
    BY <2>1 DEF Full
  <2>2. CASE Insert(m)
    BY <2>2 DEF Insert, NoRow, TypeInv, TypeOK
  <2>3. CASE InlineRecord(m)
    <3>1. row[m].status = "queued" /\ row[m].body = "full"
      BY <2>3 DEF InlineRecord, Full
    <3>2. CASE inline[m].outcome # "sent"
      BY <1>2, <2>3, <3>1, <3>2 DEF InlineRecord, TypeInv, TypeOK, Row
    <3>3. CASE inline[m].outcome = "sent"
      <4>. DEFINE sent == [row[m] EXCEPT !.status = "sent", !.count = 1, !.stale = FALSE]
      <4>1. 1 \in 0..MaxAttempts
        OBVIOUS
      <4>2. sent \in Row /\ sent.status = "sent" /\ sent.body = row[m].body
        BY <1>2, <4>1 DEF Row
      <4>3. row'[m] = Redacted(m, sent)
        BY <2>3, <3>3 DEF InlineRecord, TypeInv, TypeOK
      <4>. HIDE DEF sent
      <4>. QED BY <3>1, <4>2, <4>3, RedactedTyped, RedactedBody
    <3>. QED BY <3>2, <3>3
  <2>4. CASE Cancel(m)
    <3>1. [row[m] EXCEPT !.status = "cancelled"] \in Row
      BY <1>2, RowTyped
    <3>2. row'[m] = Redacted(m, [row[m] EXCEPT !.status = "cancelled"]) /\ m \in Credential
      BY <2>4 DEF Cancel, TypeInv, TypeOK
    <3>3. row'[m].status = "cancelled"
      BY <1>2, <3>1, <3>2, RedactedTyped DEF Row
    <3>. QED BY <3>2, <3>3
  <2>5. CASE RetryWrites(m)
    <3>1. m \notin Credential
      BY <2>5 DEF RetryWrites, RetryWrite, Full
    <3>. QED BY <1>2, <2>5, <3>1 DEF RetryWrites, RetryWrite, Full, Row, TypeInv, TypeOK
  <2>6. CASE BackoffElapses(m) \/ LeaseElapses(m)
    BY <1>2, <2>6 DEF BackoffElapses, LeaseElapses, Full, Row, TypeInv, TypeOK
  <2>7. CASE e # m
    <3>1. row'[m] = row[m]
      BY <2>7 DEF Insert, InlineStep, InlineRead, InlineSend, InlineRecord, InlineCrash, Cancel,
           RetryReads, RetryRead, RetryWrites, RetryWrite, BackoffElapses, LeaseElapses, TypeInv, TypeOK
    <3>. QED BY <2>1, <3>1
  <2>8. CASE InlineRead(m) \/ InlineSend(m) \/ InlineCrash(m) \/ RetryReads(m)
    BY <2>1, <2>8 DEF InlineRead, InlineSend, InlineCrash, RetryReads, RetryRead
  <2>. QED BY <2>2, <2>3, <2>4, <2>5, <2>6, <2>7, <2>8 DEF InlineStep
<1>. QED BY <1>1, <1>3, <1>4, <1>5 DEF Full, Holds

LEMMA WorkerLeavesFull ==
  ASSUME TypeInv, NEW m \in Email \ late', Mine(m), Full(m), NEW w \in Worker, WorkerStep(w) \/ WorkerCrash(w)
  PROVE  Full(m)'
<1>. DEFINE RowFull == row[m].status \in {"queued", "processing"} \/ m \notin Credential => row[m].body = "full"
            HeldFull == Holds(w, m) => worker[w].todo[m].body = "full"
<1>1. /\ UNCHANGED <<inline, retry>>
      /\ \A v \in Worker \ {w} : worker'[v] = worker[v]
  BY DEF WorkerStep, Recover, Claim, Send, Record, WorkerCrash, TypeInv, TypeOK
<1>2. row[m] \in Row
  BY DEF TypeInv, TypeOK
<1>3. ASSUME RowFull', HeldFull' PROVE Full(m)'
  BY <1>1, <1>3 DEF Full, Holds
<1>4. RowFull /\ HeldFull
  BY DEF Full
<1>5. CASE Recover(w)
  <2>1. row'[m] = row[m] \/ (row[m].status = "processing" /\ row'[m] = [row[m] EXCEPT !.status = "queued", !.next = "due"])
    BY <1>5 DEF Recover, Expired
  <2>2. RowFull'
    BY <1>2, <1>4, <2>1 DEF Row
  <2>3. ~Holds(w, m)'
    BY <1>5 DEF Recover, Holds, TypeInv, TypeOK
  <2>. QED BY <1>3, <2>2, <2>3
<1>6. CASE Claim(w)
  <2>1. PICK taken \in SUBSET {e \in Email : Eligible(e)} :
          /\ row' = [e \in Email |->
               IF e \in taken THEN [row[e] EXCEPT !.status = "processing", !.stale = FALSE] ELSE row[e]]
          /\ worker' = [worker EXCEPT ![w] =
               IF taken = {} THEN Idle
               ELSE [pc |-> "send", todo |-> [e \in taken |-> Taken(e)]]]
    BY <1>6 DEF Claim
  <2>2. m \in taken => row[m].status = "queued" /\ row[m].body = "full"
    BY <1>4, <2>1 DEF Eligible
  <2>3. RowFull'
    BY <1>2, <1>4, <2>1, <2>2 DEF Row
  <2>4. HeldFull'
    <3>1. CASE taken = {}
      BY <2>1, <3>1 DEF Holds, Idle, TypeInv, TypeOK
    <3>2. CASE taken # {}
      <4>1. worker'[w] = [pc |-> "send", todo |-> [e \in taken |-> Taken(e)]]
        BY <2>1, <3>2 DEF TypeInv, TypeOK
      <4>. QED BY <2>2, <4>1 DEF Holds, Taken
    <3>. QED BY <3>1, <3>2
  <2>. QED BY <1>3, <2>3, <2>4
<1>7. CASE Send(w) \/ WorkerCrash(w)
  <2>1. row' = row
    BY <1>7 DEF Send, WorkerCrash
  <2>2. Holds(w, m)' => Holds(w, m) /\ worker'[w].todo = worker[w].todo
    BY <1>7 DEF Send, WorkerCrash, Holds, Idle, TypeInv, TypeOK
  <2>. QED BY <1>3, <1>4, <2>1, <2>2
<1>8. CASE Record(w)
  <2>. DEFINE e == worker[w].at
              left == DOMAIN worker[w].todo \ {e}
  <2>1. /\ e \in DOMAIN worker[w].todo /\ worker[w].todo[e].count + 1 \in 1..MaxAttempts
        /\ worker[w].outcome \in Outcome /\ worker[w].pc = "record"
    BY <1>8 DEF Record, TypeInv, TodoOK, Working, Took
  <2>2. RowFull'
    <3>1. CASE e = m
      <4>1. row[m].body = "full"
        BY <1>4, <2>1, <3>1 DEF Mine, Holds
      <4>2. row'[m] = Recorded(m, row[m], worker[w].todo[m].count + 1, worker[w].outcome)
        BY <1>8, <3>1 DEF Record, TypeInv, TypeOK
      <4>3. row'[m].status \in {"sent", "failed", "queued"}
        BY <1>2, <2>1, <3>1, <4>2, RecordedTyped
      <4>. QED BY <1>2, <2>1, <3>1, <4>1, <4>2, <4>3, RecordedBody
    <3>2. CASE e # m
      <4>1. row'[m] = row[m]
        BY <1>8, <3>2 DEF Record, TypeInv, TypeOK
      <4>. QED BY <1>4, <4>1
    <3>. QED BY <3>1, <3>2
  <2>3. HeldFull'
    <3>1. CASE left = {}
      BY <1>8, <3>1 DEF Record, Holds, Idle, TypeInv, TypeOK
    <3>2. CASE left # {}
      <4>1. worker'[w] = [pc |-> "send", todo |-> [f \in left |-> worker[w].todo[f]]]
        BY <1>8, <3>2 DEF Record, TypeInv, TypeOK
      <4>. QED BY <1>4, <2>1, <4>1 DEF Holds
    <3>. QED BY <3>1, <3>2
  <2>. QED BY <1>3, <2>2, <2>3
<1>. QED BY <1>5, <1>6, <1>7, <1>8 DEF WorkerStep

LEMMA FullStep ==
  TypeInv /\ MineUnlessLate /\ FullUnlessLate /\ [Next]_vars => FullUnlessLate'
<1>. SUFFICES ASSUME TypeInv, MineUnlessLate, FullUnlessLate, [Next]_vars, NEW m \in Email \ late'
              PROVE  Full(m)'
  BY DEF FullUnlessLate
<1>1. Mine(m) /\ Full(m)
  BY LateGrows DEF MineUnlessLate, FullUnlessLate
<1>2. CASE UNCHANGED vars \/ \E a \in Request : RetryCrash(a)
  BY <1>1, <1>2 DEF Full, Holds, RetryCrash, TypeInv, TypeOK, vars, history
<1>. QED BY <1>1, <1>2, Steps, WriterLeavesFull, WorkerLeavesFull

(* The redaction marker goes out as a message only after a write that did  *)
(* not look at what it wrote over (sendQueuedRow, retryEmailAction, a      *)
(* worker that outlived its lease): a claim alone never finds a redacted   *)
(* row (processQueueBatch).                                                *)
THEOREM MarkerOnlyAfterLateWriteHolds == Spec => []MarkerOnlyAfterLateWrite
<1>1. Init => MineUnlessLate /\ FullUnlessLate
  BY DEF Init, MineUnlessLate, Mine, FullUnlessLate, Full, Holds, NoRow, Idle
<1>2. TypeInv /\ FullUnlessLate => MarkerOnlyAfterLateWrite
  BY DEF FullUnlessLate, Full, MarkerOnlyAfterLateWrite, Holds, TypeInv, TodoOK, Working
<1>. QED BY <1>1, <1>2, MineStep, FullStep, TypeInvHolds, PTL DEF Spec

-------------------------------------------------------------------------------
(* How often a message was tried.  Copies of the count are written back    *)
(* late and out of order, but none is ahead of the calls made, as long as  *)
(* no administrator has reset both.                                        *)

Counted(e) ==
  /\ row[e].count <= tries[e]
  /\ row[e].status = "failed" => tries[e] >= MaxAttempts
  /\ inline[e].pc = "record" => tries[e] >= 1
  /\ \A w \in Worker : Holds(w, e) =>
       /\ worker[w].todo[e].count <= tries[e]
       /\ worker[w].pc = "record" /\ worker[w].at = e => tries[e] > worker[w].todo[e].count

CountedUnlessRetried == \A e \in Email \ retried : Counted(e)

LEMMA TriesGrow ==
  ASSUME TypeInv, NEW m \in Email, NEW e \in Email, NEW outcome, Attempt(e, outcome)
  PROVE  /\ tries'[m] \in Nat /\ tries'[m] >= tries[m]
         /\ \A n \in 0..MaxAttempts - 1 : m = e /\ n <= tries[m] => tries'[m] > n
<1>1. tries[m] \in 0..2 * MaxAttempts
  BY DEF TypeInv, TypeOK
<1>2. tries'[m] = IF m = e THEN Least(tries[m] + 1, 2 * MaxAttempts) ELSE tries[m]
  BY DEF Attempt, TypeInv, TypeOK
<1>. QED BY <1>1, <1>2 DEF Least

(* A step of the writer, the administrator or of time.                     *)
LEMMA WriterCounts ==
  ASSUME TypeInv, NEW m \in Email, Counted(m), NEW e \in Email, ~RetryWrites(m),
         \/ Insert(e) \/ InlineStep(e) \/ InlineCrash(e) \/ Cancel(e)
         \/ RetryReads(e) \/ RetryWrites(e) \/ BackoffElapses(e) \/ LeaseElapses(e)
  PROVE  Counted(m)'
<1>1. row[m] \in Row /\ tries[m] \in Nat /\ row[m].count \in Nat
  BY DEF TypeInv, TypeOK, Row
<1>2. worker' = worker
  BY DEF Insert, InlineStep, InlineRead, InlineSend, InlineRecord, InlineCrash, Cancel,
         RetryReads, RetryRead, RetryWrites, RetryWrite, BackoffElapses, LeaseElapses
<1>3. tries'[m] \in Nat /\ tries'[m] >= tries[m]
  <2>1. CASE RetryWrites(e)
    <3>1. e # m
      BY <2>1
    <3>. QED BY <1>1, <2>1, <3>1 DEF RetryWrites, RetryWrite, TypeInv, TypeOK
  <2>2. CASE InlineSend(e)
    BY <2>2, TriesGrow DEF InlineSend
  <2>3. CASE tries' = tries
    BY <1>1, <2>3
  <2>. QED BY <2>1, <2>2, <2>3 DEF Insert, InlineStep, InlineRead, InlineRecord, InlineCrash, Cancel,
               RetryReads, RetryRead, BackoffElapses, LeaseElapses, history
<1>4. \A w \in Worker : Holds(w, m)' =>
        /\ worker'[w].todo[m].count <= tries'[m]
        /\ worker'[w].pc = "record" /\ worker'[w].at = m => tries'[m] > worker'[w].todo[m].count
  <2>. SUFFICES ASSUME NEW w \in Worker, Holds(w, m)
                PROVE  /\ worker[w].todo[m].count <= tries'[m]
                       /\ worker[w].pc = "record" /\ worker[w].at = m => tries'[m] > worker[w].todo[m].count
    BY <1>2 DEF Holds
  <2>1. worker[w].todo[m].count \in Nat
    BY DEF Holds, TypeInv, TodoOK, Working, Took
  <2>. QED BY <1>1, <1>3, <2>1 DEF Counted
<1>5. inline'[m].pc = "record" => tries'[m] >= 1
  <2>1. CASE InlineSend(e) /\ e = m
    <3>1. 0 \in 0..MaxAttempts - 1 /\ 0 <= tries[m]
      BY <1>1
    <3>2. tries'[m] > 0
      BY <2>1, <3>1, TriesGrow DEF InlineSend
    <3>. QED BY <1>3, <3>2
  <2>2. CASE ~(InlineSend(e) /\ e = m)
    <3>1. inline'[m].pc = "record" => inline[m].pc = "record"
      BY <2>2 DEF Insert, InlineStep, InlineRead, InlineSend, InlineRecord, InlineCrash, Cancel,
                  RetryReads, RetryRead, RetryWrites, RetryWrite, BackoffElapses, LeaseElapses, Idle, TypeInv, TypeOK
    <3>. QED BY <1>1, <1>3, <3>1 DEF Counted
  <2>. QED BY <2>1, <2>2
<1>6. \/ row'[m].count = row[m].count /\ (row'[m].status = "failed" => row[m].status = "failed")
      \/ row'[m].count = 0 /\ row'[m].status # "failed"
      \/ row'[m].count = 1 /\ row'[m].status # "failed" /\ inline[m].pc = "record"
  <2>1. CASE row'[m] = row[m]
    BY <2>1
  <2>2. CASE Insert(e) /\ e = m
    BY <2>2 DEF Insert, NoRow, TypeInv, TypeOK
  <2>3. CASE InlineRecord(e) /\ e = m
    <3>. DEFINE sent == [row[m] EXCEPT !.status = "sent", !.count = 1, !.stale = FALSE]
    <3>1. sent \in Row /\ sent.status = "sent" /\ sent.count = 1
      <4>1. 1 \in 0..MaxAttempts
        OBVIOUS
      <4>. QED BY <1>1, <4>1 DEF Row
    <3>. HIDE DEF sent
    <3>2. Redacted(m, sent).count = 1 /\ Redacted(m, sent).status = "sent"
      BY <3>1, RedactedTyped
    <3>3. row'[m] = Redacted(m, sent) \/
          row'[m] = [row[m] EXCEPT !.status = "queued", !.count = 1, !.stale = FALSE, !.next = "later"]
      BY <2>3 DEF InlineRecord, sent, TypeInv, TypeOK
    <3>4. inline[m].pc = "record"
      BY <2>3 DEF InlineRecord
    <3>. QED BY <1>1, <3>2, <3>3, <3>4 DEF Row
  <2>4. CASE Cancel(e) /\ e = m
    <3>1. [row[m] EXCEPT !.status = "cancelled"] \in Row
      BY <1>1, RowTyped
    <3>2. row'[m] = Redacted(m, [row[m] EXCEPT !.status = "cancelled"])
      BY <2>4 DEF Cancel, TypeInv, TypeOK
    <3>. QED BY <1>1, <3>1, <3>2, RedactedTyped DEF Row
  <2>5. CASE (BackoffElapses(e) \/ LeaseElapses(e)) /\ e = m
    BY <1>1, <2>5 DEF BackoffElapses, LeaseElapses, Row, TypeInv, TypeOK
  <2>6. CASE RetryWrites(e)
    <3>1. e # m
      BY <2>6
    <3>2. row'[m] = row[m]
      BY <2>6, <3>1 DEF RetryWrites, RetryWrite, TypeInv, TypeOK
    <3>. QED BY <2>1, <3>2
  <2>7. CASE e # m /\ ~RetryWrites(e)
    <3>1. row'[m] = row[m]
      BY <2>7 DEF Insert, InlineStep, InlineRead, InlineSend, InlineRecord, InlineCrash, Cancel,
             RetryReads, RetryRead, BackoffElapses, LeaseElapses, TypeInv, TypeOK
    <3>. QED BY <2>1, <3>1
  <2>8. CASE InlineRead(e) \/ InlineSend(e) \/ InlineCrash(e) \/ RetryReads(e)
    BY <2>1, <2>8 DEF InlineRead, InlineSend, InlineCrash, RetryReads, RetryRead
  <2>. QED BY <2>2, <2>3, <2>4, <2>5, <2>6, <2>7, <2>8 DEF InlineStep
<1>. QED BY <1>1, <1>3, <1>4, <1>5, <1>6 DEF Counted

(* A step of a worker, whoever else has its rows by now.                   *)
LEMMA WorkerCounts ==
  ASSUME TypeInv, NEW m \in Email, Counted(m), NEW w \in Worker, WorkerStep(w) \/ WorkerCrash(w)
  PROVE  Counted(m)'
<1>. DEFINE Kept(v) == Holds(v, m)' =>
                         /\ worker'[v].todo[m].count <= tries'[m]
                         /\ worker'[v].pc = "record" /\ worker'[v].at = m => tries'[m] > worker'[v].todo[m].count
            RowKept == /\ row'[m].count <= tries'[m]
                       /\ row'[m].status = "failed" => tries'[m] >= MaxAttempts
<1>1. row[m] \in Row /\ tries[m] \in Nat /\ row[m].count \in Nat
  BY DEF TypeInv, TypeOK, Row
<1>2. /\ inline' = inline
      /\ \A v \in Worker \ {w} : worker'[v] = worker[v]
  BY DEF WorkerStep, Recover, Claim, Send, Record, WorkerCrash, TypeInv, TypeOK
<1>3. tries'[m] \in Nat /\ tries'[m] >= tries[m]
  <2>1. CASE tries' = tries
    BY <1>1, <2>1
  <2>2. CASE Send(w)
    <3>1. PICK e \in DOMAIN worker[w].todo, outcome \in Outcome : Attempt(e, outcome)
      BY <2>2 DEF Send
    <3>2. e \in Email
      BY <2>2, <3>1 DEF Send, TypeInv, TodoOK, Working
    <3>. QED BY <3>1, <3>2, TriesGrow
  <2>. QED BY <2>1, <2>2 DEF WorkerStep, Recover, Claim, Record, WorkerCrash, history
<1>4. ASSUME NEW v \in Worker, worker'[v] = worker[v] PROVE Kept(v)
  <2>1. Holds(v, m) => worker[v].todo[m].count \in Nat
    BY DEF Holds, TypeInv, TodoOK, Working, Took
  <2>. QED BY <1>1, <1>3, <1>4, <2>1 DEF Counted, Holds
<1>5. inline'[m].pc = "record" => tries'[m] >= 1
  BY <1>1, <1>2, <1>3 DEF Counted
<1>6. ASSUME Kept(w), RowKept PROVE Counted(m)'
  BY <1>2, <1>4, <1>5, <1>6 DEF Counted
<1>7. ASSUME row'[m].count = row[m].count, row'[m].status = "failed" => row[m].status = "failed"
      PROVE  RowKept
  BY <1>1, <1>3, <1>7 DEF Counted
<1>. HIDE DEF RowKept
<1>8. CASE Recover(w)
  <2>1. RowKept
    BY <1>1, <1>7, <1>8 DEF Recover, Row
  <2>2. Kept(w)
    BY <1>8 DEF Recover, Holds, TypeInv, TypeOK
  <2>. QED BY <1>6, <2>1, <2>2
<1>9. CASE Claim(w)
  <2>1. PICK taken \in SUBSET {e \in Email : Eligible(e)} :
          /\ row' = [e \in Email |->
               IF e \in taken THEN [row[e] EXCEPT !.status = "processing", !.stale = FALSE] ELSE row[e]]
          /\ worker' = [worker EXCEPT ![w] =
               IF taken = {} THEN Idle
               ELSE [pc |-> "send", todo |-> [e \in taken |-> Taken(e)]]]
    BY <1>9 DEF Claim
  <2>2. RowKept
    BY <1>1, <1>7, <2>1 DEF Row
  <2>3. Kept(w)
    <3>1. CASE taken = {}
      BY <2>1, <3>1 DEF Holds, Idle, TypeInv, TypeOK
    <3>2. CASE taken # {}
      <4>1. worker'[w] = [pc |-> "send", todo |-> [e \in taken |-> Taken(e)]]
        BY <2>1, <3>2 DEF TypeInv, TypeOK
      <4>2. row[m].count <= tries'[m]
        BY <1>1, <1>3 DEF Counted
      <4>. QED BY <4>1, <4>2 DEF Holds, Taken
    <3>. QED BY <3>1, <3>2
  <2>. QED BY <1>6, <2>2, <2>3
<1>10. CASE Send(w)
  <2>1. PICK e \in DOMAIN worker[w].todo, outcome \in Outcome :
          /\ Attempt(e, outcome)
          /\ worker' = [worker EXCEPT ![w] =
               [pc |-> "record", todo |-> @.todo, at |-> e, outcome |-> outcome]]
    BY <1>10 DEF Send
  <2>2. RowKept
    BY <1>7, <1>10 DEF Send
  <2>3. worker[w].pc = "send" /\ e \in Email
        /\ \A f \in DOMAIN worker[w].todo : worker[w].todo[f].count \in 0..MaxAttempts - 1
    BY <1>10, <2>1 DEF Send, TypeInv, TodoOK, Working, Took
  <2>4. worker'[w].pc = "record" /\ worker'[w].todo = worker[w].todo /\ worker'[w].at = e
    BY <2>1 DEF TypeInv, TypeOK
  <2>5. Kept(w)
    <3>. SUFFICES ASSUME Holds(w, m)'
                  PROVE  /\ worker[w].todo[m].count <= tries'[m]
                         /\ m = e => tries'[m] > worker[w].todo[m].count
      BY <2>4
    <3>1. Holds(w, m)
      BY <2>3, <2>4 DEF Holds
    <3>2. worker[w].todo[m].count \in 0..MaxAttempts - 1 /\ worker[w].todo[m].count <= tries[m]
      BY <2>3, <3>1 DEF Holds, Counted
    <3>3. m = e => tries'[m] > worker[w].todo[m].count
      BY <2>1, <2>3, <3>2, TriesGrow
    <3>. QED BY <1>1, <1>3, <3>2, <3>3
  <2>. QED BY <1>6, <2>2, <2>5
<1>11. CASE Record(w)
  <2>. DEFINE e == worker[w].at
              left == DOMAIN worker[w].todo \ {e}
  <2>1. /\ e \in Email /\ e \in DOMAIN worker[w].todo /\ worker[w].todo[e].count \in Nat
        /\ worker[w].todo[e].count + 1 \in 1..MaxAttempts /\ worker[w].outcome \in Outcome
        /\ \A f \in DOMAIN worker[w].todo : worker[w].todo[f].count \in Nat
    BY <1>11 DEF Record, TypeInv, TodoOK, Working, Took
  <2>2. /\ row' = [row EXCEPT ![e] = Recorded(e, @, worker[w].todo[e].count + 1, worker[w].outcome)]
        /\ worker[w].pc = "record"
    BY <1>11 DEF Record
  <2>3. RowKept
    <3>1. CASE e = m
      <4>. DEFINE new == Recorded(m, row[m], worker[w].todo[m].count + 1, worker[w].outcome)
      <4>1. new.count = worker[w].todo[m].count + 1
            /\ (new.status = "failed" => worker[w].todo[m].count + 1 >= MaxAttempts)
        BY <1>1, <2>1, <3>1, RecordedTyped
      <4>2. row'[m] = new
        BY <2>2, <3>1 DEF TypeInv, TypeOK
      <4>. HIDE DEF new
      <4>3. tries[m] > worker[w].todo[m].count
        BY <2>1, <2>2, <3>1 DEF Counted, Holds
      <4>. QED BY <1>1, <1>3, <2>1, <3>1, <4>1, <4>2, <4>3 DEF RowKept
    <3>2. CASE e # m
      <4>1. row'[m] = row[m]
        BY <2>2, <3>2 DEF TypeInv, TypeOK
      <4>. QED BY <1>7, <4>1
    <3>. QED BY <3>1, <3>2
  <2>4. Kept(w)
    <3>1. CASE left = {}
      BY <1>11, <3>1 DEF Record, Holds, Idle, TypeInv, TypeOK
    <3>2. CASE left # {}
      <4>1. worker'[w] = [pc |-> "send", todo |-> [f \in left |-> worker[w].todo[f]]]
        BY <1>11, <3>2 DEF Record, TypeInv, TypeOK
      <4>2. m \in left => worker[w].todo[m].count \in Nat /\ worker[w].todo[m].count <= tries[m]
        BY <2>1, <2>2 DEF Counted, Holds
      <4>. QED BY <1>1, <1>3, <4>1, <4>2 DEF Holds
    <3>. QED BY <3>1, <3>2
  <2>. QED BY <1>6, <2>3, <2>4
<1>12. CASE WorkerCrash(w)
  <2>1. RowKept
    BY <1>7, <1>12 DEF WorkerCrash
  <2>2. Kept(w)
    BY <1>12 DEF WorkerCrash, Holds, Idle, TypeInv, TypeOK
  <2>. QED BY <1>6, <2>1, <2>2
<1>. QED BY <1>8, <1>9, <1>10, <1>11, <1>12 DEF WorkerStep

LEMMA RetriedOnly ==
  ASSUME TypeInv, [Next]_vars, NEW m \in Email \ retried'
  PROVE  m \notin retried /\ ~RetryWrites(m)
<1>1. ASSUME NEW e \in Email, RetryWrites(e) PROVE retried' = retried \cup {e}
  BY <1>1 DEF RetryWrites, RetryWrite
<1>2. retried' = retried \/ \E e \in Email : RetryWrites(e)
  BY Steps DEF Insert, InlineStep, InlineRead, InlineSend, InlineRecord, InlineCrash, Cancel, RetryReads,
         RetryRead, RetryCrash, BackoffElapses, LeaseElapses, WorkerStep, Recover, Claim, Send, Record,
         WorkerCrash, vars, history
<1>. QED BY <1>1, <1>2

LEMMA CountedStep == TypeInv /\ CountedUnlessRetried /\ [Next]_vars => CountedUnlessRetried'
<1>. SUFFICES ASSUME TypeInv, CountedUnlessRetried, [Next]_vars, NEW m \in Email \ retried'
              PROVE  Counted(m)'
  BY DEF CountedUnlessRetried
<1>1. Counted(m) /\ ~RetryWrites(m)
  BY RetriedOnly DEF CountedUnlessRetried
<1>2. CASE UNCHANGED vars \/ \E a \in Request : RetryCrash(a)
  BY <1>1, <1>2 DEF Counted, Holds, RetryCrash, vars, history
<1>3. CASE \E e \in Email : \/ Insert(e) \/ InlineStep(e) \/ InlineCrash(e) \/ Cancel(e)
                           \/ RetryReads(e) \/ RetryWrites(e) \/ BackoffElapses(e) \/ LeaseElapses(e)
  BY <1>1, <1>3, WriterCounts
<1>4. CASE \E w \in Worker : WorkerStep(w) \/ WorkerCrash(w)
  BY <1>1, <1>4, WorkerCounts
<1>. QED BY <1>2, <1>3, <1>4, Steps

(* A message that nobody has retried is given up only after max_attempts   *)
(* provider calls: workers that meet an inline send or outlive their lease *)
(* may send too often, never too seldom (processQueueBatch,                *)
(* sendQueuedRow).                                                         *)
THEOREM NoEarlyFailureHolds == Spec => []NoEarlyFailure
<1>1. Init => CountedUnlessRetried
  BY DEF Init, CountedUnlessRetried, Counted, Holds, NoRow, Idle
<1>2. CountedUnlessRetried => NoEarlyFailure
  BY DEF CountedUnlessRetried, Counted, NoEarlyFailure
<1>. QED BY <1>1, <1>2, CountedStep, TypeInvHolds, PTL DEF Spec

===============================================================================

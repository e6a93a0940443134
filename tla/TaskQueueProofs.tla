-------------------------- MODULE TaskQueueProofs --------------------------
(***************************************************************************)
(* Proofs about TaskQueue.tla, for every number of tasks, workers, claims, *)
(* every budget, delay and lease: types, fencing, mutual exclusion under a *)
(* valid lease, the attempt budget, dependencies without cycles, one task  *)
(* per dedup key, the legal transitions, the order of the claims and the   *)
(* journal as the history of the row.                                      *)
(*                                                                         *)
(* The actions fall into a few kinds by what they do to one row, its lease *)
(* and the claims (lemma StepKinds), and each appends to the journal       *)
(* (lemma StepJournal); the properties are proved kind by kind.            *)
(***************************************************************************)
EXTENDS TaskQueue, TLAPS

-----------------------------------------------------------------------------
(* Sequences *)

\* A sequence is a function on the positions up to its length.
LEMMA SeqShape ==
  ASSUME NEW S, NEW s \in Seq(S)
  PROVE  /\ Len(s) \in Nat /\ DOMAIN s = 1..Len(s) /\ s \in [1..Len(s) -> S]
         /\ \A i \in 1..Len(s) : s[i] \in S
OBVIOUS

-----------------------------------------------------------------------------
(* Rows *)

\* The lease columns are empty.
Free(r) == r.owner = NoOwner /\ r.expires = 0 /\ r.token = 0

\* The columns an insert gives a task for good.
SameTask(r, s) == r.key = s.key /\ r.deps = s.deps

\* A row nobody uses has the type of a row and no lease.
LEMMA BlankRow == Blank \in Row /\ Free(Blank)
BY TaskQueueAssumption DEF Blank, Row, Free, NoRow

\* Clearing the lease columns changes nothing else (not the status, the
\* dependencies, the key or the budget).
LEMMA ReleasedRow ==
  ASSUME NEW r \in Row
  PROVE  /\ Released(r) \in Row /\ Free(Released(r)) /\ SameTask(Released(r), r)
         /\ Released(r).status = r.status /\ Released(r).attempts = r.attempts
         /\ Released(r).max = r.max
BY Zenon DEF Released, Row, Free, SameTask

-----------------------------------------------------------------------------
(* The kinds of steps, by what they do to one row, its lease and the claims *)

RowOnly(t) == row' \in [Task -> Row] /\ \A u \in Task \ {t} : row'[u] = row[u]

\* A call to Enqueue begins.
Entered(t) ==
  /\ RowOnly(t) /\ row[t].status = "absent" /\ row'[t].status = "calling"
  /\ Free(row'[t]) /\ row'[t].attempts < row'[t].max
  /\ UNCHANGED claims

\* It inserts its task.
Inserted(t) ==
  /\ RowOnly(t) /\ row[t].status = "calling" /\ row'[t].status = "pending"
  /\ SameTask(row'[t], row[t]) /\ (Free(row[t]) => Free(row'[t]))
  /\ row'[t].attempts = row[t].attempts /\ row'[t].max = row[t].max
  /\ DepsExist(t) /\ ~Duplicate(t)
  /\ UNCHANGED claims

\* It is refused.
Refused(t) ==
  /\ RowOnly(t) /\ row[t].status = "calling" /\ row'[t].status = "refused"
  /\ Free(row'[t])
  /\ UNCHANGED claims

\* A task that nobody runs is cancelled, rescued, dismissed or reprioritized.
Operated(t) ==
  /\ RowOnly(t) /\ row[t].status \in {"pending", "dead"}
  /\ row'[t].status \in {"pending", "cancelled"}
  /\ SameTask(row'[t], row[t]) /\ (Free(row[t]) => Free(row'[t]))
  /\ \/ row'[t].status = "cancelled"
     \/ row'[t].attempts < row'[t].max
     \/ /\ row[t].status = "pending"
        /\ row'[t].attempts = row[t].attempts /\ row'[t].max = row[t].max
  /\ UNCHANGED claims

\* A task is claimed, or reclaimed from a lease that is over.
Granted(t, o, until) ==
  /\ RowOnly(t)
  /\ row[t].status = "pending" \/ (row[t].status = "running" /\ row[t].expires <= clock)
  /\ \E at \in 1..clock : First(t, at)
  /\ row'[t].status = "running" /\ SameTask(row'[t], row[t])
  /\ row'[t].owner = o /\ row'[t].expires = until /\ row'[t].token = Len(claims) + 1
  /\ row'[t].attempts = row[t].attempts /\ row'[t].max = row[t].max
  /\ claims' = Append(claims, [task |-> t, owner |-> o, since |-> clock,
                               until |-> until, open |-> TRUE])

\* A running task ends, by its holder or when its lease is over.
Ended(t) ==
  /\ RowOnly(t) /\ row[t].status = "running"
  /\ row'[t].status \in {"pending", "completed", "dead", "cancelled"}
  /\ SameTask(row'[t], row[t]) /\ Free(row'[t])
  /\ row'[t].status = "pending" =>
       \/ row'[t].attempts < row'[t].max
       \/ row'[t].attempts = row[t].attempts /\ row'[t].max = row[t].max
  /\ row'[t].status = "dead" =>
       /\ row'[t].attempts = row[t].attempts + 1 /\ row'[t].attempts >= row'[t].max
       /\ row'[t].max \in {row[t].max, row'[t].attempts}
  /\ \/ row[t].expires <= clock /\ UNCHANGED claims
     \/ \E k \in 1..Len(claims) :
          claims[k].task = t /\ row[t].token = k /\ Close(k)

\* A holder renews its lease.
Renewed(k, until) ==
  LET t == claims[k].task IN
  /\ RowOnly(t) /\ Fenced(k)
  /\ row'[t].status = "running" /\ SameTask(row'[t], row[t])
  /\ row'[t].owner = row[t].owner /\ row'[t].token = row[t].token
  /\ row'[t].expires = until
  /\ row'[t].attempts = row[t].attempts /\ row'[t].max = row[t].max
  /\ claims' = [claims EXCEPT ![k].until = until]

Kind ==
  \/ UNCHANGED <<row, claims>>
  \/ \E t \in Task : Entered(t) \/ Inserted(t) \/ Refused(t) \/ Operated(t) \/ Ended(t)
  \/ \E t \in Task, o \in Owner, until \in Nat : Granted(t, o, until)
  \/ \E k \in 1..Len(claims), until \in Nat : Renewed(k, until)

\* One row is replaced.
LEMMA Replaced ==
  ASSUME TypeOK, NEW t \in Task, NEW r \in Row, row' = [row EXCEPT ![t] = r]
  PROVE  RowOnly(t) /\ row'[t] = r
BY Zenon DEF TypeOK, RowOnly

\* Enqueue.
LEMMA EnterKind ==
  ASSUME TypeOK, NEW t \in Task, NEW key \in Key \cup {NoKey}, NEW deps \in SUBSET Task,
         NEW prio \in Prio, NEW max \in Budget, NEW delay \in Delays,
         EnqueueLookup(t, key, deps, prio, max, delay)
  PROVE  Entered(t)
<1> DEFINE r == [Blank EXCEPT !.status = "calling", !.key = key, !.deps = deps,
                     !.prio = prio, !.max = max, !.notBefore = delay,
                     !.created = clock]
<1>1. /\ r \in Row /\ r.status = "calling" /\ Free(r) /\ r.attempts = 0 /\ r.max = max
      /\ max \in Nat \ {0}
  BY TaskQueueAssumption, Zenon DEF TypeOK, Blank, Row, Free, NoRow
<1>2. row' = [row EXCEPT ![t] = r] /\ row[t].status = "absent" /\ claims' = claims
  BY Zenon DEF EnqueueLookup
<1>3. RowOnly(t) /\ row'[t] = r
  BY <1>1, <1>2, Replaced, Zenon
<1> QED
  <2> HIDE DEF r
  <2>1. 0 < max
    BY <1>1
  <2> QED
    BY <1>1, <1>2, <1>3, <2>1, Zenon DEF Entered

\* insertTask inserts the task or refuses it.
LEMMA InsertKind ==
  ASSUME TypeOK, NEW t \in Task, EnqueueInsert(t)
  PROVE  Inserted(t) \/ Refused(t)
<1> DEFINE no == [Blank EXCEPT !.status = "refused"]
           yes == [row[t] EXCEPT !.status = "pending"]
<1>1. /\ no \in Row /\ no.status = "refused" /\ Free(no)
  BY TaskQueueAssumption DEF Blank, Row, Free, NoRow
<1>2. row[t] \in Row
  BY Zenon DEF TypeOK
<1>3. /\ yes \in Row /\ yes.status = "pending" /\ (Free(row[t]) => Free(yes))
      /\ SameTask(yes, row[t]) /\ yes.attempts = row[t].attempts /\ yes.max = row[t].max
  BY <1>2, Zenon DEF Row, Free, SameTask, Status
<1>4. CASE Duplicate(t) \/ ~DepsExist(t)
  <2>1. row' = [row EXCEPT ![t] = no] /\ row[t].status = "calling" /\ claims' = claims
    BY <1>4, Zenon DEF EnqueueInsert
  <2> QED
    BY <1>1, <2>1, Replaced, Zenon DEF Refused
<1>5. CASE ~Duplicate(t) /\ DepsExist(t)
  <2>1. row' = [row EXCEPT ![t] = yes] /\ row[t].status = "calling" /\ claims' = claims
    BY <1>5, Zenon DEF EnqueueInsert
  <2> QED
    BY <1>3, <1>5, <2>1, Replaced, Zenon DEF Inserted
<1> QED
  BY <1>4, <1>5, Zenon

\* ClaimDue.
LEMMA GrantKind ==
  ASSUME TypeOK, NEW t \in Task, NEW o \in Owner, NEW at \in 1..clock,
         NEW lease \in Leases, NEW fs, First(t, at), Stamp(t, o, at, lease, fs)
  PROVE  Granted(t, o, at + lease) /\ at + lease \in Nat
<1>1. at \in Nat /\ lease \in Nat /\ at <= clock /\ row[t] \in Row
  BY TaskQueueAssumption DEF TypeOK
<1>2. at + lease \in Nat /\ Len(claims) + 1 \in Nat
  BY <1>1 DEF TypeOK
<1> DEFINE r == [row[t] EXCEPT !.status = "running", !.owner = o, !.expires = at + lease,
                               !.token = Len(claims) + 1]
<1>3. /\ r \in Row /\ SameTask(r, row[t]) /\ r.status = "running" /\ r.owner = o
      /\ r.expires = at + lease /\ r.token = Len(claims) + 1
      /\ r.attempts = row[t].attempts /\ r.max = row[t].max
  BY <1>1, <1>2, Zenon DEF Row, SameTask, Status
<1>4. row' = [row EXCEPT ![t] = r]
  BY Zenon DEF Stamp, TypeOK
<1>5. RowOnly(t) /\ row'[t] = r
  BY <1>3, <1>4, Replaced, Zenon
<1>6. Due(t, at)
  BY Zenon DEF First, Candidates
<1>7. row[t].status = "pending" \/ (row[t].status = "running" /\ row[t].expires <= at)
  BY <1>6, Zenon DEF Due
<1>8. row[t].expires <= at => row[t].expires <= clock
  BY <1>1 DEF TypeOK, Row
<1>9. claims' = Append(claims, [task |-> t, owner |-> o, since |-> clock,
                                until |-> at + lease, open |-> TRUE])
  BY Zenon DEF Stamp
<1> HIDE DEF r
<1> QED
  BY <1>2, <1>3, <1>5, <1>6, <1>7, <1>8, <1>9, Zenon DEF Granted

\* finalizeReclaim with a cancel request ends a task whose lease is over.
LEMMA FinalizeKind ==
  ASSUME TypeOK, NEW t \in Task, NEW o \in Owner, NEW at \in 1..clock,
         First(t, at), row[t].status = "running", FinalizeCancel(t, o)
  PROVE  Ended(t)
<1>1. at \in Nat /\ at <= clock /\ row[t] \in Row
  BY DEF TypeOK
<1> DEFINE r == [Released(row[t]) EXCEPT !.status = "cancelled"]
<1>2. r \in Row /\ Free(r) /\ SameTask(r, row[t]) /\ r.status = "cancelled"
  BY <1>1, ReleasedRow, Zenon DEF Row, Free, SameTask, Status
<1>3. row' = [row EXCEPT ![t] = r] /\ claims' = claims
  BY Zenon DEF FinalizeCancel, TypeOK
<1>4. RowOnly(t) /\ row'[t] = r
  BY <1>2, <1>3, Replaced, Zenon
<1>5. row[t].expires <= at
  BY Zenon DEF First, Candidates, Due
<1>6. row[t].expires <= clock
  BY <1>1, <1>5 DEF TypeOK, Row
<1> HIDE DEF r
<1> QED
  BY <1>2, <1>3, <1>4, <1>6, Zenon DEF Ended

\* The finalizers: the holder of claim k leaves r in the row.
LEMMA FinishKind ==
  ASSUME TypeOK, NEW k \in 1..Len(claims), Fenced(k), Close(k), NEW r \in Row,
         row' = [row EXCEPT ![claims[k].task] = r],
         Free(r), SameTask(r, row[claims[k].task]),
         r.status \in {"pending", "completed", "dead", "cancelled"},
         r.status = "pending" => r.attempts < r.max
                                 \/ (/\ r.attempts = row[claims[k].task].attempts
                                     /\ r.max = row[claims[k].task].max),
         r.status = "dead" =>
           /\ r.attempts = row[claims[k].task].attempts + 1 /\ r.attempts >= r.max
           /\ r.max \in {row[claims[k].task].max, r.attempts}
  PROVE  Ended(claims[k].task)
<1> DEFINE t == claims[k].task
<1>1. t \in Task
  <2>1. claims[k] \in Claim
    BY SeqShape, Zenon DEF TypeOK
  <2> QED
    BY <2>1, Zenon DEF Claim
<1>2. row[t].status = "running" /\ row[t].token = k
  BY Zenon DEF Fenced
<1>3. RowOnly(t) /\ row'[t] = r
  BY <1>1, Replaced, Zenon
<1> QED
  BY <1>1, <1>2, <1>3, Zenon DEF Ended

\* A claim names a task of the table.
LEMMA HeldRow ==
  ASSUME TypeOK, NEW k \in 1..Len(claims)
  PROVE  claims[k] \in Claim /\ claims[k].task \in Task /\ row[claims[k].task] \in Row
<1>1. claims[k] \in Claim
  BY SeqShape, Zenon DEF TypeOK
<1> QED
  BY <1>1, Zenon DEF Claim, TypeOK

\* Complete ends the task.
LEMMA CompleteKind ==
  ASSUME TypeOK, NEW k \in 1..Len(claims), NEW at \in Instants(k), Complete(k, at)
  PROVE  Ended(claims[k].task)
<1> DEFINE t == claims[k].task
           r == [Released(row[t]) EXCEPT !.status = "completed"]
<1>1. r \in Row /\ Free(r) /\ SameTask(r, row[t]) /\ r.status = "completed"
  BY HeldRow, ZenonT(40) DEF Released, Row, Free, SameTask, Status
<1>2. Fenced(k) /\ Close(k) /\ row' = [row EXCEPT ![t] = r]
  BY Zenon DEF Complete
<1> HIDE DEF r
<1> QED
  BY <1>1, <1>2, FinishKind, Zenon

\* CancelOwned ends the task.
LEMMA CancelOwnedKind ==
  ASSUME TypeOK, NEW k \in 1..Len(claims), CancelOwned(k)
  PROVE  Ended(claims[k].task)
<1> DEFINE t == claims[k].task
           r == [Released(row[t]) EXCEPT !.status = "cancelled"]
<1>1. r \in Row /\ Free(r) /\ SameTask(r, row[t]) /\ r.status = "cancelled"
  BY HeldRow, ZenonT(40) DEF Released, Row, Free, SameTask, Status
<1>2. Fenced(k) /\ Close(k) /\ row' = [row EXCEPT ![t] = r]
  BY Zenon DEF CancelOwned
<1> HIDE DEF r
<1> QED
  BY <1>1, <1>2, FinishKind, Zenon

\* Requeue gives the task back with its attempts unchanged.
LEMMA RequeueKind ==
  ASSUME TypeOK, NEW k \in 1..Len(claims), NEW delay \in Delays, Requeue(k, delay)
  PROVE  Ended(claims[k].task)
<1> DEFINE t == claims[k].task
           r == [Released(row[t]) EXCEPT !.status = "pending", !.notBefore = clock + delay]
<1>1. clock + delay \in Nat
  BY TaskQueueAssumption DEF TypeOK
<1>2. /\ r \in Row /\ Free(r) /\ SameTask(r, row[t]) /\ r.status = "pending"
      /\ r.attempts = row[t].attempts /\ r.max = row[t].max
  BY <1>1, HeldRow, ZenonT(40) DEF Released, Row, Free, SameTask, Status
<1>3. Fenced(k) /\ Close(k) /\ row' = [row EXCEPT ![t] = r]
  BY Zenon DEF Requeue
<1> HIDE DEF r
<1> QED
  BY <1>2, <1>3, FinishKind, Zenon

\* deadLetter ends the task with its budget used up.
LEMMA DeadLetterKind ==
  ASSUME TypeOK, NEW k \in 1..Len(claims), Fenced(k), Close(k), NEW max \in Nat,
         row[claims[k].task].attempts + 1 >= max,
         max \in {row[claims[k].task].max, row[claims[k].task].attempts + 1},
         DeadLetter(k, max)
  PROVE  Ended(claims[k].task)
<1> DEFINE t == claims[k].task
           r == [Released(row[t]) EXCEPT !.status = "dead", !.attempts = row[t].attempts + 1,
                                         !.max = max]
<1>1. row[t].attempts + 1 \in Nat
  <2>1. row[t] \in Row
    BY HeldRow, Zenon
  <2>2. row[t].attempts \in Nat
    BY <2>1, Zenon DEF Row
  <2> QED
    BY <2>2, SMTT(30)
<1>2. /\ r \in Row /\ Free(r) /\ SameTask(r, row[t]) /\ r.status = "dead"
      /\ r.attempts = row[t].attempts + 1 /\ r.max = max
  BY <1>1, HeldRow, ZenonT(40) DEF Released, Row, Free, SameTask, Status
<1>3. row' = [row EXCEPT ![t] = r]
  BY Zenon DEF DeadLetter
<1> HIDE DEF r
<1> QED
  BY <1>2, <1>3, FinishKind, Zenon

\* retryRow gives the task back below its budget.
LEMMA RetryKind ==
  ASSUME TypeOK, NEW k \in 1..Len(claims), Fenced(k), Close(k), NEW backoff \in Delays,
         ~Exhausted(claims[k].task), RetryRow(k, backoff)
  PROVE  Ended(claims[k].task)
<1> DEFINE t == claims[k].task
           r == [Released(row[t]) EXCEPT !.status = "pending",
                                         !.attempts = row[t].attempts + 1,
                                         !.notBefore = clock + backoff]
<1>1. row[t].attempts + 1 \in Nat /\ clock + backoff \in Nat
  BY HeldRow, TaskQueueAssumption DEF Row, TypeOK
<1>2. /\ r \in Row /\ Free(r) /\ SameTask(r, row[t]) /\ r.status = "pending"
      /\ r.attempts = row[t].attempts + 1 /\ r.max = row[t].max
  BY <1>1, HeldRow, ZenonT(40) DEF Released, Row, Free, SameTask, Status
<1>3. row[t].attempts + 1 < row[t].max
  BY HeldRow, SMTT(30) DEF Exhausted, Row
<1>4. row' = [row EXCEPT ![t] = r]
  BY Zenon DEF RetryRow
<1> HIDE DEF r
<1> QED
  BY <1>2, <1>3, <1>4, FinishKind, Zenon

\* Fail and FailPermanent end the task.
LEMMA FailKind ==
  ASSUME TypeOK, NEW k \in 1..Len(claims)
  PROVE  /\ \A backoff \in Delays : Fail(k, backoff) => Ended(claims[k].task)
         /\ FailPermanent(k) => Ended(claims[k].task)
<1> DEFINE t == claims[k].task
<1>1. row[t].attempts \in Nat /\ row[t].max \in Nat /\ row[t].attempts + 1 \in Nat
  BY HeldRow, SMTT(30) DEF Row
<1>2. ASSUME NEW backoff \in Delays, Fail(k, backoff) PROVE Ended(t)
  <2>1. Fenced(k) /\ Close(k)
    BY <1>2, Zenon DEF Fail
  <2>2. CASE Exhausted(t)
    <3>1. DeadLetter(k, row[t].max) /\ row[t].attempts + 1 >= row[t].max
      BY <1>2, <2>2, Zenon DEF Fail, Exhausted
    <3> QED
      BY <1>1, <2>1, <3>1, DeadLetterKind, Zenon
  <2>3. CASE ~Exhausted(t)
    <3>1. RetryRow(k, backoff)
      BY <1>2, <2>3, Zenon DEF Fail
    <3> QED
      BY <2>1, <2>3, <3>1, RetryKind, Zenon
  <2> QED
    BY <2>2, <2>3, Zenon
<1>3. ASSUME FailPermanent(k) PROVE Ended(t)
  <2>1. Fenced(k) /\ Close(k) /\ DeadLetter(k, row[t].attempts + 1)
    BY <1>3, Zenon DEF FailPermanent
  <2>2. row[t].attempts + 1 >= row[t].attempts + 1
    BY <1>1
  <2> QED
    BY <1>1, <2>1, <2>2, DeadLetterKind, Zenon
<1> QED
  BY <1>2, <1>3, Zenon

\* Heartbeat renews the lease of claim k.
LEMMA RenewKind ==
  ASSUME TypeOK, NEW k \in 1..Len(claims), NEW at \in Instants(k), NEW extend \in Leases,
         Heartbeat(k, at, extend)
  PROVE  \E until \in Nat : Renewed(k, until)
<1> DEFINE t == claims[k].task
           r == [row[t] EXCEPT !.expires = at + extend]
<1>1. at + extend \in Nat
  <2>1. claims[k].since \in Nat /\ clock \in Nat
    BY HeldRow, Zenon DEF Claim, TypeOK
  <2>2. at \in Nat /\ extend \in Nat
    BY <2>1, TaskQueueAssumption DEF Instants
  <2> QED
    BY <2>2
<1>2. /\ r \in Row /\ SameTask(r, row[t]) /\ r.status = row[t].status
      /\ r.owner = row[t].owner /\ r.token = row[t].token /\ r.expires = at + extend
      /\ r.attempts = row[t].attempts /\ r.max = row[t].max
  BY <1>1, HeldRow, Zenon DEF Row, SameTask
<1>3. /\ Fenced(k) /\ row' = [row EXCEPT ![t] = r]
      /\ claims' = [claims EXCEPT ![k].until = at + extend]
  BY HeldRow, Zenon DEF Heartbeat, TypeOK
<1>4. row[t].status = "running"
  BY <1>3, Zenon DEF Fenced
<1> HIDE DEF r
<1>5. RowOnly(t) /\ row'[t] = r
  BY <1>2, <1>3, HeldRow, Replaced, Zenon
<1>6. Renewed(k, at + extend)
  BY <1>2, <1>3, <1>4, <1>5, Zenon DEF Renewed
<1> QED
  BY <1>1, <1>6, Zenon

\* Operators.
LEMMA OperateKind ==
  ASSUME TypeOK, NEW t \in Task, Operate(t)
  PROVE  Operated(t) \/ UNCHANGED <<row, claims>>
<1>1. row[t] \in Row
  BY DEF TypeOK
<1>2. CASE CancelRunning(t)
  BY <1>2, Zenon DEF CancelRunning
<1>3. ASSUME Cancel(t) \/ DismissDead(t) PROVE Operated(t)
  <2> DEFINE r == [row[t] EXCEPT !.status = "cancelled", !.owner = NoOwner, !.expires = 0]
  <2>1. /\ r \in Row /\ SameTask(r, row[t]) /\ (Free(row[t]) => Free(r))
        /\ r.status = "cancelled"
    BY <1>1, Zenon DEF Row, SameTask, Free, Status
  <2>2. /\ row' = [row EXCEPT ![t] = r] /\ row[t].status \in {"pending", "dead"}
        /\ claims' = claims
    BY <1>3, Zenon DEF Cancel, DismissDead
  <2> HIDE DEF r
  <2>3. RowOnly(t) /\ row'[t] = r
    BY <2>1, <2>2, Replaced, Zenon
  <2> QED
    BY <2>1, <2>2, <2>3, Zenon DEF Operated
<1>4. ASSUME NEW max \in Budget, RescueDead(t, max) PROVE Operated(t)
  <2> DEFINE r == [row[t] EXCEPT !.status = "pending", !.attempts = 0, !.max = max,
                                 !.notBefore = 0, !.owner = NoOwner, !.expires = 0]
  <2>1. max \in Nat /\ 0 < max
    BY TaskQueueAssumption
  <2>2. /\ r \in Row /\ SameTask(r, row[t]) /\ (Free(row[t]) => Free(r))
        /\ r.status = "pending" /\ r.attempts = 0 /\ r.max = max
    BY <1>1, <2>1, Zenon DEF Row, SameTask, Free, Status
  <2>3. /\ row' = [row EXCEPT ![t] = r] /\ row[t].status = "dead" /\ claims' = claims
    BY <1>4, Zenon DEF RescueDead
  <2> HIDE DEF r
  <2>4. RowOnly(t) /\ row'[t] = r
    BY <2>2, <2>3, Replaced, Zenon
  <2> QED
    BY <2>1, <2>2, <2>3, <2>4, Zenon DEF Operated
<1>5. ASSUME NEW prio \in Prio, UpdatePendingPriority(t, prio) PROVE Operated(t)
  <2> DEFINE r == [row[t] EXCEPT !.prio = prio]
  <2>1. prio \in Int
    BY TaskQueueAssumption, Zenon
  <2>2. /\ r \in Row /\ SameTask(r, row[t]) /\ (Free(row[t]) => Free(r))
        /\ r.status = row[t].status /\ r.attempts = row[t].attempts /\ r.max = row[t].max
    BY <1>1, <2>1, Zenon DEF Row, SameTask, Free
  <2>3. /\ row' = [row EXCEPT ![t] = r] /\ row[t].status = "pending" /\ claims' = claims
    BY <1>5, Zenon DEF UpdatePendingPriority, TypeOK
  <2> HIDE DEF r
  <2>4. RowOnly(t) /\ row'[t] = r
    BY <2>2, <2>3, Replaced, Zenon
  <2> QED
    BY <2>2, <2>3, <2>4, Zenon DEF Operated
<1> QED
  BY <1>2, <1>3, <1>4, <1>5, Zenon DEF Operate

\* Every step is of one of the kinds.
LEMMA StepKinds ==
  ASSUME TypeOK, [Next]_vars
  PROVE  Kind
<1>1. ASSUME NEW t \in Task, Produce(t) PROVE Kind
  <2>1. Entered(t) \/ Inserted(t) \/ Refused(t)
    BY <1>1, EnterKind, InsertKind, Zenon DEF Produce
  <2> QED
    BY <2>1, Zenon DEF Kind
<1>2. ASSUME NEW t \in Task, Operate(t) PROVE Kind
  BY <1>2, OperateKind, Zenon DEF Kind
<1>3. ASSUME NEW o \in Owner, NEW at \in 1..clock, NEW lease \in Leases,
             ClaimDue(o, at, lease)
      PROVE  Kind
  <2>1. PICK t \in Task : /\ First(t, at)
                          /\ \/ \E fs : Stamp(t, o, at, lease, fs)
                             \/ row[t].status = "running" /\ FinalizeCancel(t, o)
    BY <1>3, Zenon DEF ClaimDue
  <2>2. CASE \E fs : Stamp(t, o, at, lease, fs)
    <3>1. Granted(t, o, at + lease) /\ at + lease \in Nat
      BY <2>1, <2>2, GrantKind, Zenon
    <3> QED
      BY <3>1, Zenon DEF Kind
  <2>3. CASE row[t].status = "running" /\ FinalizeCancel(t, o)
    <3>1. Ended(t)
      BY <2>1, <2>3, FinalizeKind, Zenon
    <3> QED
      BY <3>1, Zenon DEF Kind
  <2> QED
    BY <2>1, <2>2, <2>3, Zenon
<1>4. ASSUME NEW k \in 1..Len(claims), Work(k) PROVE Kind
  <2>1. Ended(claims[k].task) \/ \E until \in Nat : Renewed(k, until)
    BY <1>4, CompleteKind, RenewKind, FailKind, RequeueKind, CancelOwnedKind, Zenon DEF Work
  <2>2. claims[k].task \in Task
    BY HeldRow, Zenon
  <2> QED
    BY <2>1, <2>2, Zenon DEF Kind
<1>5. ASSUME NEW cutoff \in 1..clock, MarkOrphaned(cutoff) PROVE Kind
  BY <1>5, Zenon DEF MarkOrphaned, Kind
<1>6. CASE Tick \/ UNCHANGED vars
  BY <1>6, Zenon DEF Tick, vars, Kind
<1> QED
  BY <1>1, <1>2, <1>3, <1>4, <1>5, <1>6, Zenon DEF Next

\* The step of a row.
LEMMA RowKind ==
  ASSUME Kind, NEW u \in Task
  PROVE  \/ row'[u] = row[u]
         \/ Entered(u) \/ Inserted(u) \/ Refused(u) \/ Operated(u) \/ Ended(u)
         \/ \E o \in Owner, until \in Nat : Granted(u, o, until)
         \/ \E k \in 1..Len(claims), until \in Nat : Renewed(k, until) /\ u = claims[k].task
<1> SUFFICES ASSUME row'[u] # row[u]
             PROVE  \/ Entered(u) \/ Inserted(u) \/ Refused(u) \/ Operated(u) \/ Ended(u)
                    \/ \E o \in Owner, until \in Nat : Granted(u, o, until)
                    \/ \E k \in 1..Len(claims), until \in Nat :
                         Renewed(k, until) /\ u = claims[k].task
  OBVIOUS
<1>1. ASSUME NEW t, RowOnly(t) PROVE u = t
  BY <1>1, Zenon DEF RowOnly
<1>2. ASSUME NEW t \in Task,
             Entered(t) \/ Inserted(t) \/ Refused(t) \/ Operated(t) \/ Ended(t)
      PROVE  u = t
  BY <1>1, <1>2, Zenon DEF Entered, Inserted, Refused, Operated, Ended
<1>3. ASSUME NEW t \in Task, NEW o \in Owner, NEW until \in Nat, Granted(t, o, until)
      PROVE  u = t
  BY <1>1, <1>3, Zenon DEF Granted
<1>4. ASSUME NEW k \in 1..Len(claims), NEW until \in Nat, Renewed(k, until)
      PROVE  u = claims[k].task
  BY <1>1, <1>4, Zenon DEF Renewed
<1> QED
  BY <1>2, <1>3, <1>4, Zenon DEF Kind

-----------------------------------------------------------------------------
(* The journal *)

\* A step appends g to the facts of u; it records a claim only where ClaimDue
\* took u with its dependencies met.
Appended(u, g) ==
  /\ facts'[u] = facts[u] \o g
  /\ (\E i \in 1..Len(g) : g[i].type = "claimed") => Exists(u) /\ DepsMet(u)

JournalGrows ==
  /\ facts' \in [Task -> Seq(Fact)]
  /\ \A u \in Task : \E g \in Seq(Fact) : Appended(u, g)

\* A step that records nothing.
LEMMA QuietJournal ==
  ASSUME TypeOK, UNCHANGED facts
  PROVE  JournalGrows
<1>1. ASSUME NEW u \in Task PROVE Appended(u, <<>>)
  BY DEF Appended, TypeOK
<1>2. <<>> \in Seq(Fact)
  OBVIOUS
<1> QED
  BY <1>1, <1>2, Zenon DEF JournalGrows, TypeOK

\* appendFact grows the journal of its task only.
LEMMA RecordGrows ==
  ASSUME TypeOK, NEW t \in Task, NEW fs \in Seq(Fact), Record(t, fs),
         (\E i \in 1..Len(fs) : fs[i].type = "claimed") => Exists(t) /\ DepsMet(t)
  PROVE  JournalGrows
<1>1. facts' = [facts EXCEPT ![t] = facts[t] \o fs]
  BY Zenon DEF Record, TypeOK
<1>2. facts[t] \o fs \in Seq(Fact)
  BY DEF TypeOK
<1>3. facts' \in [Task -> Seq(Fact)]
  BY <1>1, <1>2, Zenon DEF TypeOK
<1>4. ASSUME NEW u \in Task, u # t PROVE Appended(u, <<>>)
  BY <1>1, <1>4 DEF Appended, TypeOK
<1>5. Appended(t, fs)
  BY <1>1, Zenon DEF Appended, TypeOK
<1>6. <<>> \in Seq(Fact)
  OBVIOUS
<1> QED
  BY <1>3, <1>4, <1>5, <1>6, Zenon DEF JournalGrows

\* A fact as appendFact writes it.
LEMMA OneFact ==
  ASSUME NEW type \in FactType, NEW o \in Owner \cup {NoOwner}, NEW n \in Nat
  PROVE  /\ F(type, o, n) \in Fact /\ F(type, o, n).type = type
         /\ <<F(type, o, n)>> \in Seq(Fact)
BY DEF F, Fact

\* One fact that is no claim.
LEMMA RecordOne ==
  ASSUME TypeOK, NEW t \in Task, NEW type \in FactType \ {"claimed"},
         NEW o \in Owner \cup {NoOwner}, NEW n \in Nat, Record(t, <<F(type, o, n)>>)
  PROVE  JournalGrows
<1>1. <<F(type, o, n)>> \in Seq(Fact) /\ F(type, o, n).type # "claimed"
  BY OneFact, Zenon
<1>2. \A i \in 1..Len(<<F(type, o, n)>>) : <<F(type, o, n)>>[i] = F(type, o, n)
  OBVIOUS
<1> QED
  BY <1>1, <1>2, RecordGrows, Zenon

\* Two facts, the second perhaps a claim.
LEMMA RecordTwo ==
  ASSUME TypeOK, NEW t \in Task, NEW ta \in FactType \ {"claimed"}, NEW tb \in FactType,
         NEW o \in Owner \cup {NoOwner}, NEW p \in Owner \cup {NoOwner},
         NEW n \in Nat, NEW m \in Nat,
         Record(t, <<F(ta, o, n), F(tb, p, m)>>),
         tb = "claimed" => Exists(t) /\ DepsMet(t)
  PROVE  JournalGrows
<1> DEFINE fs == <<F(ta, o, n), F(tb, p, m)>>
<1>1. /\ F(ta, o, n) \in Fact /\ F(ta, o, n).type # "claimed"
      /\ F(tb, p, m) \in Fact /\ F(tb, p, m).type = tb
  BY Zenon DEF F, Fact
<1>2. fs \in Seq(Fact)
  BY <1>1
<1>3. \A i \in 1..Len(fs) : fs[i] \in {F(ta, o, n), F(tb, p, m)}
  OBVIOUS
<1> QED
  BY <1>1, <1>2, <1>3, RecordGrows, Zenon

\* Sequences with the same elements are the same.
LEMMA SeqSame ==
  ASSUME NEW S, NEW s \in Seq(S), NEW q \in Seq(S), Len(s) = Len(q),
         \A i \in 1..Len(s) : s[i] = q[i]
  PROVE  s = q
OBVIOUS

\* Two sequences of one element each.
LEMMA TwoConcat ==
  ASSUME NEW S, NEW a \in S, NEW b \in S
  PROVE  <<a>> \o <<b>> = <<a, b>>
<1>1. <<a>> \in Seq(S) /\ <<b>> \in Seq(S) /\ <<a, b>> \in Seq(S)
  OBVIOUS
<1>2. Len(<<a>> \o <<b>>) = 2 /\ Len(<<a, b>>) = 2
  BY <1>1
<1>3. /\ (<<a>> \o <<b>>)[1] = a /\ (<<a>> \o <<b>>)[2] = b
  BY <1>1
<1>4. \A i \in 1..2 : (<<a>> \o <<b>>)[i] = <<a, b>>[i]
  BY <1>3
<1>5. <<a>> \o <<b>> \in Seq(S)
  BY <1>1
<1> QED
  BY <1>1, <1>2, <1>4, <1>5, SeqSame, Zenon

\* Every step appends to the journal.
LEMMA StepJournal ==
  ASSUME TypeOK, [Next]_vars
  PROVE  JournalGrows
<1>1. ASSUME NEW t \in Task, Produce(t) PROVE JournalGrows
  <2>1. UNCHANGED facts \/ Record(t, <<F("enqueued", NoOwner, 0)>>)
    BY <1>1, Zenon DEF Produce, EnqueueLookup, EnqueueInsert
  <2> QED
    BY <2>1, QuietJournal, RecordOne, Zenon DEF FactType
<1>2. ASSUME NEW t \in Task, Operate(t) PROVE JournalGrows
  <2>1. \E type \in FactType \ {"claimed"} : Record(t, <<F(type, NoOwner, 0)>>)
    BY <1>2, Zenon DEF Operate, Cancel, CancelRunning, DismissDead, RescueDead,
                UpdatePendingPriority, FactType
  <2> QED
    BY <2>1, RecordOne, Zenon
<1>3. ASSUME NEW o \in Owner, NEW at \in 1..clock, NEW lease \in Leases,
             ClaimDue(o, at, lease)
      PROVE  JournalGrows
  <2>1. PICK t \in Task :
          /\ First(t, at)
          /\ \/ Record(t, <<>> \o <<F("claimed", o, 0)>>)
             \/ Record(t, <<F("released", row[t].owner, 0)>> \o <<F("claimed", o, 0)>>)
             \/ Record(t, <<F("released", row[t].owner, 0), F("cancelled", o, 0)>>)
    BY <1>3, Zenon DEF ClaimDue, Stamp, FinalizeCancel
  <2>2. Exists(t) /\ DepsMet(t)
    BY <2>1, Zenon DEF First, Candidates, Due, Exists, Status
  <2>3. row[t].owner \in Owner \cup {NoOwner}
    BY Zenon DEF TypeOK, Row
  <2>4. CASE Record(t, <<>> \o <<F("claimed", o, 0)>>)
    <3>1. F("claimed", o, 0) \in Fact
      BY OneFact, Zenon DEF FactType
    <3>2. <<>> \o <<F("claimed", o, 0)>> = <<F("claimed", o, 0)>>
      BY <3>1
    <3>3. <<F("claimed", o, 0)>> \in Seq(Fact)
      BY <3>1
    <3> QED
      BY <2>2, <2>4, <3>2, <3>3, RecordGrows, Zenon
  <2>5. CASE Record(t, <<F("released", row[t].owner, 0)>> \o <<F("claimed", o, 0)>>)
    <3>1. <<F("released", row[t].owner, 0)>> \o <<F("claimed", o, 0)>>
            = <<F("released", row[t].owner, 0), F("claimed", o, 0)>>
      <4>1. F("released", row[t].owner, 0) \in Fact /\ F("claimed", o, 0) \in Fact
        BY <2>3, OneFact, Zenon DEF FactType
      <4> QED
        BY <4>1, TwoConcat, Zenon
    <3> QED
      BY <2>2, <2>3, <2>5, <3>1, RecordTwo, Zenon DEF FactType
  <2>6. CASE Record(t, <<F("released", row[t].owner, 0), F("cancelled", o, 0)>>)
    BY <2>3, <2>6, RecordTwo, Zenon DEF FactType
  <2> QED
    BY <2>1, <2>4, <2>5, <2>6, Zenon
<1>4. ASSUME NEW k \in 1..Len(claims), Work(k) PROVE JournalGrows
  <2> DEFINE t == claims[k].task
             n == row[t].attempts + 1
  <2>1. t \in Task /\ row[t].owner \in Owner \cup {NoOwner} /\ n \in Nat
    <3>1. t \in Task /\ row[t] \in Row
      BY HeldRow, Zenon
    <3> HIDE DEF t
    <3>2. row[t].attempts \in Nat /\ row[t].owner \in Owner \cup {NoOwner}
      BY <3>1, Zenon DEF Row
    <3> QED
      BY <3>1, <3>2
  <2>2. \/ UNCHANGED facts
        \/ \E type \in {"completed", "requeued", "cancelled"} :
             Record(t, <<F(type, row[t].owner, 0)>>)
        \/ Record(t, <<F("failed", row[t].owner, n)>>)
        \/ Record(t, <<F("failed", row[t].owner, n), F("dead-lettered", row[t].owner, n)>>)
    BY <1>4, Zenon DEF Work, Complete, Heartbeat, Fail, DeadLetter, RetryRow, Requeue,
                FailPermanent, CancelOwned
  <2> HIDE DEF n, t
  <2>3. CASE \E type \in {"completed", "requeued", "cancelled"} :
               Record(t, <<F(type, row[t].owner, 0)>>)
    <3>1. PICK type \in {"completed", "requeued", "cancelled"} :
            Record(t, <<F(type, row[t].owner, 0)>>)
      BY <2>3, Zenon
    <3>2. type \in FactType \ {"claimed"}
      BY Zenon DEF FactType
    <3> QED
      BY <2>1, <3>1, <3>2, RecordOne, Zenon
  <2>4. {"failed", "dead-lettered"} \subseteq FactType \ {"claimed"}
    BY Zenon DEF FactType
  <2> QED
    BY <2>1, <2>2, <2>3, <2>4, QuietJournal, RecordOne, RecordTwo, Zenon
<1>5. ASSUME NEW cutoff \in 1..clock, MarkOrphaned(cutoff) PROVE JournalGrows
  <2> DEFINE g(u) == F("orphaned", row[u].owner, 0)
  <2>1. ASSUME NEW u \in Task
        PROVE  /\ g(u) \in Fact /\ g(u).type # "claimed"
               /\ facts'[u] = facts[u] \/ facts'[u] = Append(facts[u], g(u))
    <3>1. row[u].owner \in Owner \cup {NoOwner}
      BY Zenon DEF TypeOK, Row
    <3> QED
      BY <1>5, <3>1, OneFact, Zenon DEF MarkOrphaned, FactType
  <2>2. ASSUME NEW u \in Task
        PROVE  facts'[u] \in Seq(Fact) /\ \E h \in Seq(Fact) : Appended(u, h)
    <3>1. facts[u] \in Seq(Fact) /\ <<g(u)>> \in Seq(Fact)
      BY <2>1 DEF TypeOK
    <3> HIDE DEF g
    <3>2. CASE facts'[u] = facts[u]
      <4>1. Appended(u, <<>>)
        BY <3>1, <3>2 DEF Appended
      <4>2. <<>> \in Seq(Fact)
        OBVIOUS
      <4> QED
        BY <3>1, <3>2, <4>1, <4>2, Zenon
    <3>3. CASE facts'[u] = Append(facts[u], g(u))
      <4>1. facts'[u] = facts[u] \o <<g(u)>> /\ facts'[u] \in Seq(Fact)
        BY <2>1, <3>1, <3>3, SMTT(30)
      <4>2. \A i \in 1..Len(<<g(u)>>) : <<g(u)>>[i].type # "claimed"
        BY <2>1
      <4> QED
        BY <3>1, <4>1, <4>2, Zenon DEF Appended
    <3> QED
      BY <2>1, <3>2, <3>3, Zenon
  <2>3. facts' \in [Task -> Seq(Fact)]
    <3>1. facts' = [u \in Task |-> facts'[u]]
      BY <1>5, Zenon DEF MarkOrphaned
    <3> QED
      BY <2>2, <3>1, Zenon
  <2> QED
    BY <2>2, <2>3, Zenon DEF JournalGrows
<1>6. CASE Tick \/ UNCHANGED vars
  BY <1>6, QuietJournal, Zenon DEF Tick, vars
<1> QED
  BY <1>1, <1>2, <1>3, <1>4, <1>5, <1>6 DEF Next

-----------------------------------------------------------------------------
(* Types, and what every kind of step keeps *)

\* The clock never goes back.
LEMMA ClockGrows ==
  ASSUME TypeOK, [Next]_vars
  PROVE  clock' \in Nat /\ clock <= clock'
<1>1. clock \in Nat
  BY Zenon DEF TypeOK
<1>2. clock' = clock \/ clock' = clock + 1
  <2>1. ASSUME NEW t \in Task, Produce(t) \/ Operate(t) PROVE clock' = clock
    BY <2>1, Zenon DEF Produce, EnqueueLookup, EnqueueInsert, Operate, Cancel, CancelRunning,
                DismissDead, RescueDead, UpdatePendingPriority
  <2>2. ASSUME NEW o \in Owner, NEW at \in 1..clock, NEW lease \in Leases,
               ClaimDue(o, at, lease)
        PROVE  clock' = clock
    BY <2>2, Zenon DEF ClaimDue, Stamp, FinalizeCancel
  <2>3. ASSUME NEW k \in 1..Len(claims), Work(k) PROVE clock' = clock
    BY <2>3, Zenon DEF Work, Complete, Heartbeat, Fail, Requeue, FailPermanent, CancelOwned
  <2> QED
    BY <2>1, <2>2, <2>3, Zenon DEF Next, vars, MarkOrphaned, Tick
<1> QED
  BY <1>1, <1>2

\* What the claims become, kind by kind.
LEMMA ClaimsStep ==
  ASSUME TypeOK, Kind
  PROVE  claims' \in Seq(Claim) /\ Len(claims) <= Len(claims')
<1>0. claims \in Seq(Claim) /\ Len(claims) \in Nat
  BY DEF TypeOK
<1>1. CASE UNCHANGED claims
  BY <1>0, <1>1
<1>2. ASSUME NEW k \in 1..Len(claims), Close(k)
      PROVE  claims' \in Seq(Claim) /\ Len(claims) <= Len(claims')
  <2>1. claims[k] \in Claim
    BY HeldRow, Zenon
  <2>2. [claims[k] EXCEPT !.open = FALSE] \in Claim
    BY <2>1, Zenon DEF Claim
  <2>3. claims' = [claims EXCEPT ![k] = [claims[k] EXCEPT !.open = FALSE]]
    BY <1>2, Zenon DEF Close
  <2> QED
    BY <1>0, <2>2, <2>3
<1>3. ASSUME NEW t \in Task, NEW o \in Owner, NEW until \in Nat, Granted(t, o, until)
      PROVE  claims' \in Seq(Claim) /\ Len(claims) <= Len(claims')
  <2> DEFINE c == [task |-> t, owner |-> o, since |-> clock, until |-> until, open |-> TRUE]
  <2>1. c \in Claim
    BY Zenon DEF Claim, TypeOK
  <2>2. claims' = Append(claims, c)
    BY <1>3, Zenon DEF Granted
  <2> HIDE DEF c
  <2> QED
    BY <1>0, <2>1, <2>2
<1>4. ASSUME NEW k \in 1..Len(claims), NEW until \in Nat, Renewed(k, until)
      PROVE  claims' \in Seq(Claim) /\ Len(claims) <= Len(claims')
  <2>1. claims[k] \in Claim
    BY HeldRow, Zenon
  <2>2. [claims[k] EXCEPT !.until = until] \in Claim
    BY <2>1, Zenon DEF Claim
  <2>3. claims' = [claims EXCEPT ![k] = [claims[k] EXCEPT !.until = until]]
    BY <1>4, Zenon DEF Renewed
  <2> QED
    BY <1>0, <2>2, <2>3
<1> QED
  BY <1>1, <1>2, <1>3, <1>4, Zenon DEF Kind, Entered, Inserted, Refused, Operated, Ended

\* The initial state has the declared types.
LEMMA TypeInit == Init => TypeOK
<1> SUFFICES ASSUME Init PROVE TypeOK
  OBVIOUS
<1>1. row \in [Task -> Row]
  BY BlankRow, Zenon DEF Init
<1>2. <<>> \in Seq(Fact) /\ <<>> \in Seq(Claim)
  OBVIOUS
<1> QED
  BY <1>1, <1>2, Zenon DEF Init, TypeOK

\* Every step keeps the types.
LEMMA TypeStep ==
  ASSUME TypeOK, [Next]_vars
  PROVE  TypeOK'
<1>1. Kind
  BY StepKinds, Zenon
<1>2. row' \in [Task -> Row]
  BY <1>1, Zenon DEF Kind, TypeOK, Entered, Inserted, Refused, Operated, Ended, Granted, Renewed,
              RowOnly
<1> QED
  BY <1>1, <1>2, ClaimsStep, ClockGrows, StepJournal, Zenon DEF JournalGrows, TypeOK

\* Every reachable state of the queue has the declared types.
THEOREM TypeCorrect == Spec => []TypeOK
BY TypeInit, TypeStep, PTL DEF Spec

-----------------------------------------------------------------------------
(* Fencing *)

\* What LeaseOfNewestClaim says of one task.
Leased(t) ==
  LET r == row[t] IN
  IF r.status = "running"
    THEN /\ r.token \in 1..Len(claims)
         /\ claims[r.token].task = t /\ claims[r.token].open
         /\ claims[r.token].owner = r.owner /\ claims[r.token].until = r.expires
         /\ \A k \in (r.token + 1)..Len(claims) : claims[k].task # t
    ELSE r.token = 0 /\ r.expires = 0 /\ r.owner = NoOwner

\* A task whose row and whose claims a step leaves alone.
LEMMA SameLease ==
  ASSUME NEW t \in Task, Leased(t), row'[t] = row[t], UNCHANGED claims
  PROVE  Leased(t)'
BY Zenon DEF Leased

\* A row that does not run needs only empty lease columns.
LEMMA FreeLease ==
  ASSUME NEW t \in Task, row'[t].status # "running", Free(row'[t])
  PROVE  Leased(t)'
BY Zenon DEF Leased, Free

\* A task that does not run has empty lease columns.
LEMMA IdleIsFree ==
  ASSUME NEW t \in Task, Leased(t), row[t].status # "running"
  PROVE  Free(row[t])
BY Zenon DEF Leased, Free

\* Claim k of task t is closed or renewed: other tasks do not notice.
LEMMA OtherLease ==
  ASSUME TypeOK, NEW k \in 1..Len(claims), NEW c \in Claim,
         c.task = claims[k].task, claims' = [claims EXCEPT ![k] = c],
         NEW u \in Task, u # claims[k].task, Leased(u), row'[u] = row[u]
  PROVE  Leased(u)'
<1>0. claims \in Seq(Claim) /\ Len(claims) \in Nat
  BY DEF TypeOK
<1>1. /\ Len(claims') = Len(claims)
      /\ \A j \in 1..Len(claims) : claims'[j] = IF j = k THEN c ELSE claims[j]
  BY <1>0
<1>2. CASE row[u].status # "running"
  BY <1>2, Zenon DEF Leased
<1>3. CASE row[u].status = "running"
  <2>1. /\ row[u].token \in 1..Len(claims) /\ claims[row[u].token].task = u
        /\ claims[row[u].token].open /\ claims[row[u].token].owner = row[u].owner
        /\ claims[row[u].token].until = row[u].expires
        /\ \A j \in (row[u].token + 1)..Len(claims) : claims[j].task # u
    BY <1>3, Zenon DEF Leased
  <2>2. claims'[row[u].token] = claims[row[u].token]
    BY <1>1, <2>1, Zenon
  <2>3. ASSUME NEW j \in (row[u].token + 1)..Len(claims) PROVE claims'[j].task # u
    <3>1. j \in 1..Len(claims)
      BY <1>0, <2>1
    <3> QED
      BY <1>1, <2>1, <3>1
  <2> QED
    BY <1>1, <1>3, <2>1, <2>2, <2>3, Zenon DEF Leased
<1> QED
  BY <1>2, <1>3, Zenon

\* A closed claim keeps its task and deadline.
LEMMA CloseClaim ==
  ASSUME TypeOK, NEW k \in 1..Len(claims), Close(k)
  PROVE  \E c \in Claim : /\ c.task = claims[k].task /\ c.until = claims[k].until
                          /\ c.open = FALSE
                          /\ claims' = [claims EXCEPT ![k] = c]
<1> DEFINE c == [claims[k] EXCEPT !.open = FALSE]
<1>1. claims[k] \in Claim
  BY HeldRow, Zenon
<1>2. /\ c \in Claim /\ c.task = claims[k].task /\ c.until = claims[k].until
      /\ c.open = FALSE
  BY <1>1, Zenon DEF Claim
<1>3. claims' = [claims EXCEPT ![k] = c]
  BY Zenon DEF Close
<1> QED
  BY <1>2, <1>3, Zenon

\* A renewed claim keeps its task, worker and openness.
LEMMA RenewClaim ==
  ASSUME TypeOK, NEW k \in 1..Len(claims), NEW until \in Nat, Renewed(k, until)
  PROVE  \E c \in Claim : /\ c.task = claims[k].task /\ c.until = until
                          /\ c.open = claims[k].open /\ c.owner = claims[k].owner
                          /\ claims' = [claims EXCEPT ![k] = c]
<1> DEFINE c == [claims[k] EXCEPT !.until = until]
<1>1. claims[k] \in Claim
  BY HeldRow, Zenon
<1>2. /\ c \in Claim /\ c.task = claims[k].task /\ c.until = until
      /\ c.open = claims[k].open /\ c.owner = claims[k].owner
  BY <1>1, Zenon DEF Claim
<1>3. claims' = [claims EXCEPT ![k] = c]
  BY Zenon DEF Renewed
<1> QED
  BY <1>2, <1>3, Zenon

\* A grant leases its task under the new token and leaves the others alone.
LEMMA GrantLease ==
  ASSUME TypeOK, NEW t \in Task, NEW o \in Owner, NEW until \in Nat, Granted(t, o, until),
         NEW u \in Task, Leased(u)
  PROVE  Leased(u)'
<1> DEFINE c == [task |-> t, owner |-> o, since |-> clock, until |-> until, open |-> TRUE]
<1>0. claims \in Seq(Claim) /\ Len(claims) \in Nat /\ c \in Claim
  BY DEF TypeOK, Claim
<1>1. claims' = Append(claims, c)
  BY Zenon DEF Granted
<1>2. /\ c.task = t /\ c.owner = o /\ c.until = until /\ c.open
  OBVIOUS
<1> HIDE DEF c
<1>3. /\ Len(claims') = Len(claims) + 1 /\ claims'[Len(claims) + 1] = c
      /\ \A j \in 1..Len(claims) : claims'[j] = claims[j]
  BY <1>0, <1>1
<1>4. CASE u = t
  <2>1. /\ row'[t].status = "running" /\ row'[t].owner = o /\ row'[t].expires = until
        /\ row'[t].token = Len(claims) + 1
    BY Zenon DEF Granted
  <2>2. Len(claims) + 1 \in 1..Len(claims')
    BY <1>0, <1>3
  <2>3. ASSUME NEW k \in (Len(claims) + 1 + 1)..Len(claims') PROVE FALSE
    BY <1>0, <1>3
  <2> QED
    BY <1>2, <1>3, <1>4, <2>1, <2>2, <2>3, Zenon DEF Leased
<1>5. CASE u # t
  <2>1. row'[u] = row[u]
    BY <1>5, Zenon DEF Granted, RowOnly
  <2>2. CASE row[u].status # "running"
    BY <2>1, <2>2, Zenon DEF Leased
  <2>3. CASE row[u].status = "running"
    <3>1. /\ row[u].token \in 1..Len(claims) /\ claims[row[u].token].task = u
          /\ claims[row[u].token].open /\ claims[row[u].token].owner = row[u].owner
          /\ claims[row[u].token].until = row[u].expires
          /\ \A j \in (row[u].token + 1)..Len(claims) : claims[j].task # u
      BY <2>3, Zenon DEF Leased
    <3>2. ASSUME NEW j \in (row[u].token + 1)..Len(claims') PROVE claims'[j].task # u
      <4>1. \/ j \in (row[u].token + 1)..Len(claims) /\ j \in 1..Len(claims)
            \/ j = Len(claims) + 1
        BY <1>0, <1>3, <3>1
      <4> QED
        BY <1>2, <1>3, <1>5, <3>1, <4>1, Zenon
    <3>3. row[u].token \in 1..Len(claims')
      BY <1>0, <1>3, <3>1
    <3> QED
      BY <1>3, <2>1, <2>3, <3>1, <3>2, <3>3, Zenon DEF Leased
  <2> QED
    BY <2>2, <2>3, Zenon
<1> QED
  BY <1>4, <1>5, Zenon

\* A renewal moves the deadline in row and claim alike.
LEMMA RenewLease ==
  ASSUME TypeOK, NEW k \in 1..Len(claims), NEW until \in Nat, Renewed(k, until),
         NEW u \in Task, Leased(u)
  PROVE  Leased(u)'
<1> DEFINE t == claims[k].task
<1>1. PICK c \in Claim : /\ c.task = t /\ c.until = until /\ c.open = claims[k].open
                         /\ c.owner = claims[k].owner
                         /\ claims' = [claims EXCEPT ![k] = c]
  BY RenewClaim, Zenon
<1>2. CASE u # t
  <2>1. row'[u] = row[u]
    BY <1>2, Zenon DEF Renewed, RowOnly
  <2> QED
    BY <1>1, <1>2, <2>1, OtherLease, Zenon
<1>3. CASE u = t
  <2>0. claims \in Seq(Claim) /\ Len(claims) \in Nat
    BY DEF TypeOK
  <2>1. row[u].status = "running" /\ row[u].token = k
    BY <1>3, Zenon DEF Renewed, Fenced
  <2>2. /\ row'[u].status = "running" /\ row'[u].token = k /\ row'[u].owner = row[u].owner
        /\ row'[u].expires = until
    BY <1>3, <2>1, Zenon DEF Renewed
  <2>3. /\ Len(claims') = Len(claims)
        /\ \A j \in 1..Len(claims) : claims'[j] = IF j = k THEN c ELSE claims[j]
    BY <1>1, <2>0
  <2>4. /\ claims[k].open /\ claims[k].owner = row[u].owner
        /\ \A j \in (k + 1)..Len(claims) : claims[j].task # u
    BY <2>1, Zenon DEF Leased
  <2>5. ASSUME NEW j \in (k + 1)..Len(claims) PROVE claims'[j].task # u
    <3>1. j \in 1..Len(claims) /\ j # k
      BY <2>0
    <3> QED
      BY <2>3, <2>4, <3>1, Zenon
  <2>6. /\ claims'[k].task = u /\ claims'[k].open /\ claims'[k].owner = row'[u].owner
        /\ claims'[k].until = row'[u].expires /\ k \in 1..Len(claims')
    BY <1>1, <1>3, <2>2, <2>3, <2>4, Zenon
  <2> QED
    BY <2>2, <2>3, <2>5, <2>6, Zenon DEF Leased
<1> QED
  BY <1>2, <1>3, Zenon

\* Every kind of step keeps the lease columns in line with the claims.
LEMMA LeaseStep ==
  ASSUME TypeOK, Kind, NEW u \in Task, Leased(u)
  PROVE  Leased(u)'
<1>1. CASE UNCHANGED <<row, claims>>
  BY <1>1, SameLease, Zenon
<1>2. ASSUME NEW t \in Task, Entered(t) \/ Inserted(t) \/ Refused(t) \/ Operated(t)
      PROVE  Leased(u)'
  <2>1. CASE u # t
    <3>1. row'[u] = row[u] /\ UNCHANGED claims
      BY <1>2, <2>1, Zenon DEF Entered, Inserted, Refused, Operated, RowOnly
    <3> QED
      BY <3>1, SameLease, Zenon
  <2>2. CASE u = t
    <3>1. row[u].status # "running" /\ row'[u].status # "running"
      BY <1>2, <2>2, Zenon DEF Entered, Inserted, Refused, Operated
    <3>2. Free(row[u])
      BY <3>1, IdleIsFree, Zenon
    <3>3. Free(row'[u])
      BY <1>2, <2>2, <3>2, Zenon DEF Entered, Inserted, Refused, Operated
    <3> QED
      BY <3>1, <3>3, FreeLease, Zenon
  <2> QED
    BY <2>1, <2>2, Zenon
<1>3. ASSUME NEW t \in Task, Ended(t) PROVE Leased(u)'
  <2>1. CASE u = t
    BY <1>3, <2>1, FreeLease, Zenon DEF Ended
  <2>2. CASE u # t
    <3>1. row'[u] = row[u]
      BY <1>3, <2>2, Zenon DEF Ended, RowOnly
    <3>2. CASE UNCHANGED claims
      BY <3>1, <3>2, SameLease, Zenon
    <3>3. CASE \E k \in 1..Len(claims) : claims[k].task = t /\ Close(k)
      <4>1. PICK k \in 1..Len(claims) : claims[k].task = t /\ Close(k)
        BY <3>3, Zenon
      <4>2. PICK c \in Claim : c.task = claims[k].task /\ claims' = [claims EXCEPT ![k] = c]
        BY <4>1, CloseClaim, Zenon
      <4> QED
        BY <2>2, <3>1, <4>1, <4>2, OtherLease, Zenon
    <3> QED
      BY <1>3, <3>2, <3>3, Zenon DEF Ended
  <2> QED
    BY <2>1, <2>2, Zenon
<1> QED
  BY <1>1, <1>2, <1>3, GrantLease, RenewLease, Zenon DEF Kind

-----------------------------------------------------------------------------
(* Mutual exclusion *)

\* What ValidLeaseIsHeld says of one claim.
Held(k) == claims[k].open /\ clock < claims[k].until => Fenced(k)

\* A claim on a task that is free to be taken is not valid.
LEMMA TakenIsOver ==
  ASSUME TypeOK, NEW t \in Task, Leased(t), NEW k \in 1..Len(claims), claims[k].task = t,
         Held(k), row[t].status # "running" \/ row[t].expires <= clock
  PROVE  ~(claims[k].open /\ clock < claims[k].until)
<1> SUFFICES ASSUME claims[k].open, clock < claims[k].until
             PROVE  FALSE
  OBVIOUS
<1>1. row[t].status = "running" /\ row[t].token = k
  BY Zenon DEF Held, Fenced
<1>2. claims[k].until = row[t].expires
  BY <1>1, Zenon DEF Leased
<1>3. row[t].expires \in Nat /\ clock \in Nat
  BY Zenon DEF TypeOK, Row
<1> QED
  BY <1>1, <1>2, <1>3

\* A claim whose record stays and whose row stays.
LEMMA StillHeld ==
  ASSUME TypeOK, clock' \in Nat, clock <= clock', NEW k \in 1..Len(claims), Held(k),
         claims'[k] = claims[k], row'[claims[k].task] = row[claims[k].task]
  PROVE  Held(k)'
<1>1. clock \in Nat /\ claims[k].until \in Nat
  BY HeldRow, Zenon DEF TypeOK, Claim
<1>2. clock' < claims[k].until => clock < claims[k].until
  BY <1>1
<1> QED
  BY <1>2, Zenon DEF Held, Fenced

\* A claim that is over stays over.
LEMMA StillOver ==
  ASSUME TypeOK, clock' \in Nat, clock <= clock', NEW k \in 1..Len(claims),
         ~(claims[k].open /\ clock < claims[k].until), claims'[k] = claims[k]
  PROVE  Held(k)'
<1>1. clock \in Nat /\ claims[k].until \in Nat
  BY HeldRow, Zenon DEF TypeOK, Claim
<1>2. clock' < claims[k].until => clock < claims[k].until
  BY <1>1
<1> QED
  BY <1>2, Zenon DEF Held

\* A grant takes a task on which no claim is valid.
LEMMA GrantHeld ==
  ASSUME TypeOK, clock' \in Nat, clock <= clock', NEW t \in Task, NEW o \in Owner,
         NEW until \in Nat, Granted(t, o, until), Leased(t),
         \A k \in 1..Len(claims) : Held(k), NEW k \in 1..Len(claims')
  PROVE  Held(k)'
<1> DEFINE c == [task |-> t, owner |-> o, since |-> clock, until |-> until, open |-> TRUE]
<1>0. claims \in Seq(Claim) /\ Len(claims) \in Nat /\ c \in Claim /\ c.task = t
  BY DEF TypeOK, Claim
<1>1. claims' = Append(claims, c)
  BY Zenon DEF Granted
<1> HIDE DEF c
<1>2. /\ Len(claims') = Len(claims) + 1 /\ claims'[Len(claims) + 1] = c
      /\ \A j \in 1..Len(claims) : claims'[j] = claims[j]
  BY <1>0, <1>1, SMTT(30)
<1>3. CASE k = Len(claims) + 1
  BY <1>0, <1>2, <1>3, Zenon DEF Held, Fenced, Granted
<1>4. CASE k \in 1..Len(claims) /\ claims[k].task = t
  <2>1. row[t].status # "running" \/ row[t].expires <= clock
    BY Zenon DEF Granted
  <2> QED
    BY <1>2, <1>4, <2>1, TakenIsOver, StillOver, Zenon
<1>5. CASE k \in 1..Len(claims) /\ claims[k].task # t
  <2>1. row'[claims[k].task] = row[claims[k].task]
    BY <1>5, HeldRow, Zenon DEF Granted, RowOnly
  <2> QED
    BY <1>2, <1>5, <2>1, StillHeld, Zenon
<1> QED
  BY <1>0, <1>2, <1>3, <1>4, <1>5

\* Claim k becomes c, which is closed or fenced; no other claim on its task
\* was valid.
LEMMA OwnHeld ==
  ASSUME TypeOK, clock' \in Nat, clock <= clock', NEW k \in 1..Len(claims), NEW c \in Claim,
         claims' = [claims EXCEPT ![k] = c], RowOnly(claims[k].task), Fenced(k),
         c.task = claims[k].task, c.open => Fenced(k)',
         \A j \in 1..Len(claims) : Held(j), NEW j \in 1..Len(claims')
  PROVE  Held(j)'
<1>0. claims \in Seq(Claim) /\ Len(claims) \in Nat
  BY DEF TypeOK
<1>1. /\ Len(claims') = Len(claims)
      /\ \A i \in 1..Len(claims) : claims'[i] = IF i = k THEN c ELSE claims[i]
  BY <1>0
<1>2. CASE j = k
  BY <1>1, <1>2, Zenon DEF Held
<1>3. CASE j # k /\ claims[j].task = claims[k].task
  <2>1. ~(claims[j].open /\ clock < claims[j].until)
    BY <1>1, <1>3, Zenon DEF Held, Fenced
  <2> QED
    BY <1>1, <1>3, <2>1, StillOver, Zenon
<1>4. CASE j # k /\ claims[j].task # claims[k].task
  <2>1. row'[claims[j].task] = row[claims[j].task]
    BY <1>1, <1>4, HeldRow, Zenon DEF RowOnly
  <2> QED
    BY <1>1, <1>4, <2>1, StillHeld, Zenon
<1> QED
  BY <1>2, <1>3, <1>4, Zenon

\* Every kind of step keeps valid claims fenced.
LEMMA HeldStep ==
  ASSUME TypeOK, clock' \in Nat, clock <= clock', Kind, \A t \in Task : Leased(t),
         \A k \in 1..Len(claims) : Held(k), NEW k \in 1..Len(claims')
  PROVE  Held(k)'
<1>1. CASE UNCHANGED <<row, claims>>
  BY <1>1, StillHeld, Zenon
\* The row of t changes, the claims do not, and no claim on t was valid.
<1>2. ASSUME NEW t \in Task, RowOnly(t), UNCHANGED claims,
             row[t].status # "running" \/ row[t].expires <= clock
      PROVE  Held(k)'
  <2>1. CASE claims[k].task = t
    BY <1>2, <2>1, TakenIsOver, StillOver, Zenon
  <2>2. CASE claims[k].task # t
    <3>1. row'[claims[k].task] = row[claims[k].task]
      BY <1>2, <2>2, HeldRow, Zenon DEF RowOnly
    <3> QED
      BY <1>2, <3>1, StillHeld, Zenon
  <2> QED
    BY <2>1, <2>2, Zenon
<1>3. ASSUME NEW t \in Task, Entered(t) \/ Inserted(t) \/ Refused(t) \/ Operated(t)
      PROVE  Held(k)'
  <2>1. RowOnly(t) /\ UNCHANGED claims /\ row[t].status # "running"
    BY <1>3, Zenon DEF Entered, Inserted, Refused, Operated
  <2> QED
    BY <1>2, <2>1, Zenon
<1>4. ASSUME NEW t \in Task, Ended(t) PROVE Held(k)'
  <2>1. CASE row[t].expires <= clock /\ UNCHANGED claims
    BY <1>2, <1>4, <2>1, Zenon DEF Ended
  <2>2. CASE \E j \in 1..Len(claims) : claims[j].task = t /\ row[t].token = j /\ Close(j)
    <3>1. PICK j \in 1..Len(claims) : claims[j].task = t /\ row[t].token = j /\ Close(j)
      BY <2>2, Zenon
    <3>2. PICK c \in Claim : /\ c.task = claims[j].task /\ c.open = FALSE
                             /\ claims' = [claims EXCEPT ![j] = c]
      BY <3>1, CloseClaim, Zenon
    <3>3. Fenced(j) /\ RowOnly(claims[j].task)
      BY <1>4, <3>1, Zenon DEF Ended, Fenced
    <3> QED
      BY <3>2, <3>3, OwnHeld, Zenon
  <2> QED
    BY <1>4, <2>1, <2>2, Zenon DEF Ended
<1>5. ASSUME NEW j \in 1..Len(claims), NEW until \in Nat, Renewed(j, until) PROVE Held(k)'
  <2>1. PICK c \in Claim : /\ c.task = claims[j].task /\ claims' = [claims EXCEPT ![j] = c]
    BY <1>5, RenewClaim, Zenon
  <2>2. Fenced(j) /\ RowOnly(claims[j].task)
    BY <1>5, Zenon DEF Renewed
  <2>3. Fenced(j)'
    <3>1. claims'[j] = c
      BY <2>1 DEF TypeOK
    <3>2. row'[claims[j].task].status = "running" /\ row'[claims[j].task].token = j
      BY <1>5, <2>2, Zenon DEF Renewed, Fenced
    <3> QED
      BY <2>1, <3>1, <3>2, Zenon DEF Fenced
  <2> QED
    BY <2>1, <2>2, <2>3, OwnHeld, Zenon
<1> QED
  BY <1>1, <1>3, <1>4, <1>5, GrantHeld, Zenon DEF Kind

\* Fencing: a row is leased exactly while it runs, under the token of the
\* newest claim of its task, to its worker and up to its deadline.
THEOREM NewestClaimLeased == Spec => []LeaseOfNewestClaim
<1>1. LeaseOfNewestClaim <=> \A t \in Task : Leased(t)
  BY Zenon DEF LeaseOfNewestClaim, Leased
<1>2. Init => LeaseOfNewestClaim
  BY DEF Init, LeaseOfNewestClaim, Blank
<1>3. ASSUME TypeOK, LeaseOfNewestClaim, [Next]_vars PROVE LeaseOfNewestClaim'
  <2>1. Kind
    BY <1>3, StepKinds, Zenon
  <2>2. \A t \in Task : Leased(t)'
    BY <1>1, <1>3, <2>1, LeaseStep, Zenon
  <2> QED
    BY <2>2, Zenon DEF LeaseOfNewestClaim, Leased
<1> QED
  BY <1>2, <1>3, TypeCorrect, PTL DEF Spec

\* Mutual exclusion: a worker that has not finished and whose deadline is not
\* over holds its task, whatever instants the claims of the others used.
THEOREM MutualExclusion == Spec => []ValidLeaseIsHeld
<1>1. Init => ValidLeaseIsHeld
  BY DEF Init, ValidLeaseIsHeld
<1>2. ASSUME TypeOK, LeaseOfNewestClaim, ValidLeaseIsHeld, [Next]_vars
      PROVE  ValidLeaseIsHeld'
  <2>1. Kind /\ clock' \in Nat /\ clock <= clock'
    BY <1>2, StepKinds, ClockGrows, Zenon
  <2>2. \A t \in Task : Leased(t)
    BY <1>2, Zenon DEF LeaseOfNewestClaim, Leased
  <2>3. \A k \in 1..Len(claims) : Held(k)
    BY <1>2, Zenon DEF ValidLeaseIsHeld, Held
  <2>4. \A k \in 1..Len(claims') : Held(k)'
    BY <1>2, <2>1, <2>2, <2>3, HeldStep, Zenon
  <2> QED
    BY <2>4, Zenon DEF ValidLeaseIsHeld, Held
<1> QED
  BY <1>1, <1>2, TypeCorrect, NewestClaimLeased, PTL DEF Spec

-----------------------------------------------------------------------------
(* The attempt budget *)

\* BudgetRespected, with the tasks whose Enqueue is under way.
BudgetInv ==
  \A t \in Task :
    /\ row[t].status \in {"calling", "pending", "running"} => row[t].attempts < row[t].max
    /\ row[t].status = "dead" => row[t].attempts = row[t].max

\* Every kind of step keeps the budget.
LEMMA BudgetStep ==
  ASSUME TypeOK, BudgetInv, Kind
  PROVE  BudgetInv'
<1> SUFFICES ASSUME NEW u \in Task
             PROVE  /\ row'[u].status \in {"calling", "pending", "running"}
                         => row'[u].attempts < row'[u].max
                    /\ row'[u].status = "dead" => row'[u].attempts = row'[u].max
  BY Zenon DEF BudgetInv
<1>1. /\ row[u].status \in {"calling", "pending", "running"} => row[u].attempts < row[u].max
      /\ row[u].status = "dead" => row[u].attempts = row[u].max
      /\ row[u].attempts \in Nat /\ row[u].max \in Nat
  BY Zenon DEF BudgetInv, TypeOK, Row
<1>2. CASE row'[u] = row[u]
  BY <1>1, <1>2, Zenon
<1>3. CASE Entered(u) \/ Inserted(u) \/ Refused(u) \/ Operated(u)
  BY <1>1, <1>3, Zenon DEF Entered, Inserted, Refused, Operated
<1>4. CASE Ended(u)
  BY <1>1, <1>4, SMTT(30) DEF Ended
<1>5. ASSUME NEW o \in Owner, NEW until \in Nat, Granted(u, o, until)
      PROVE  row'[u].status = "running" /\ row'[u].attempts < row'[u].max
  BY <1>1, <1>5, Zenon DEF Granted
<1>6. ASSUME NEW k \in 1..Len(claims), NEW until \in Nat, Renewed(k, until),
             u = claims[k].task
      PROVE  row'[u].status = "running" /\ row'[u].attempts < row'[u].max
  BY <1>1, <1>6, Zenon DEF Renewed, Fenced
<1>7. \/ row'[u] = row[u]
      \/ Entered(u) \/ Inserted(u) \/ Refused(u) \/ Operated(u) \/ Ended(u)
      \/ \E o \in Owner, until \in Nat : Granted(u, o, until)
      \/ \E k \in 1..Len(claims), until \in Nat : Renewed(k, until) /\ u = claims[k].task
  BY RowKind, Zenon
<1> QED
  BY <1>2, <1>3, <1>4, <1>5, <1>6, <1>7, Zenon

\* A task that can still run is below its budget; a dead one used all of it.
THEOREM BudgetHolds == Spec => []BudgetRespected
<1>1. Init => BudgetInv
  BY DEF Init, BudgetInv, Blank
<1>2. ASSUME TypeOK, BudgetInv, [Next]_vars PROVE BudgetInv'
  BY <1>2, StepKinds, BudgetStep, Zenon
<1>3. BudgetInv => BudgetRespected
  BY Zenon DEF BudgetInv, BudgetRespected
<1> QED
  BY <1>1, <1>2, <1>3, TypeCorrect, PTL DEF Spec

-----------------------------------------------------------------------------
(* Dependencies and dedup keys *)

\* A stored task stays stored with its key and dependencies, a completed one
\* completed; a task that becomes stored passed the checks of insertTask, and
\* nothing else changes then.
LEMMA StoredStep ==
  ASSUME TypeOK, Kind, NEW u \in Task
  PROVE  /\ Exists(u) => Exists(u)' /\ SameTask(row'[u], row[u])
         /\ row[u].status = "completed" => row'[u].status = "completed"
         /\ Exists(u)' /\ ~Exists(u) =>
              /\ SameTask(row'[u], row[u]) /\ DepsExist(u) /\ ~Duplicate(u)
              /\ \A w \in Task \ {u} : row'[w] = row[w]
<1>1. CASE row'[u] = row[u]
  BY <1>1, Zenon DEF Exists, SameTask
<1>2. CASE Entered(u) \/ Inserted(u) \/ Refused(u) \/ Operated(u) \/ Ended(u)
  BY <1>2, Zenon DEF Entered, Inserted, Refused, Operated, Ended, Exists, Status, RowOnly
<1>3. ASSUME NEW o \in Owner, NEW until \in Nat, Granted(u, o, until)
      PROVE  /\ Exists(u) /\ Exists(u)' /\ SameTask(row'[u], row[u])
             /\ row[u].status # "completed"
  BY <1>3, Zenon DEF Granted, Exists, Status
<1>4. ASSUME NEW k \in 1..Len(claims), NEW until \in Nat, Renewed(k, until),
             u = claims[k].task
      PROVE  /\ Exists(u) /\ Exists(u)' /\ SameTask(row'[u], row[u])
             /\ row[u].status # "completed"
  BY <1>4, Zenon DEF Renewed, Fenced, Exists, Status
<1>5. \/ row'[u] = row[u]
      \/ Entered(u) \/ Inserted(u) \/ Refused(u) \/ Operated(u) \/ Ended(u)
      \/ \E o \in Owner, until \in Nat : Granted(u, o, until)
      \/ \E k \in 1..Len(claims), until \in Nat : Renewed(k, until) /\ u = claims[k].task
  BY RowKind, Zenon
<1> QED
  BY <1>1, <1>2, <1>3, <1>4, <1>5, Zenon

\* DepsRespected, and no claim of a task that is not stored.
DepsInv == DepsRespected /\ \A t \in Task : Has(t, "claimed") => Exists(t)

\* A claim in the journal is an old one, or of this step.
LEMMA ClaimRecorded ==
  ASSUME TypeOK, JournalGrows, NEW t \in Task, Has(t, "claimed")'
  PROVE  Has(t, "claimed") \/ (Exists(t) /\ DepsMet(t))
<1>1. PICK g \in Seq(Fact) : Appended(t, g)
  BY Zenon DEF JournalGrows
<1>2. PICK i \in 1..Len(facts'[t]) : facts'[t][i].type = "claimed"
  BY Zenon DEF Has
<1>3. facts[t] \in Seq(Fact) /\ facts'[t] = facts[t] \o g
  BY <1>1, Zenon DEF TypeOK, Appended
<1>4. /\ Len(facts'[t]) = Len(facts[t]) + Len(g)
      /\ \A j \in 1..(Len(facts[t]) + Len(g)) : facts'[t][j] =
           IF j <= Len(facts[t]) THEN facts[t][j] ELSE g[j - Len(facts[t])]
  BY <1>3
<1>5. Len(facts[t]) \in Nat /\ Len(g) \in Nat
  BY <1>3
<1>6. CASE i <= Len(facts[t])
  <2>1. i \in 1..Len(facts[t]) /\ facts[t][i].type = "claimed"
    BY <1>2, <1>4, <1>5, <1>6
  <2> QED
    BY <2>1, Zenon DEF Has
<1>7. CASE ~(i <= Len(facts[t]))
  <2>0. i \in 1..(Len(facts[t]) + Len(g))
    BY <1>4, Zenon
  <2>1. i - Len(facts[t]) \in 1..Len(g)
    BY <1>5, <1>7, <2>0
  <2>2. g[i - Len(facts[t])].type = "claimed"
    BY <1>2, <1>4, <1>7, <2>0, Zenon
  <2> QED
    BY <1>1, <2>1, <2>2, Zenon DEF Appended
<1> QED
  BY <1>6, <1>7, Zenon

\* Every step keeps the dependencies of claimed tasks completed.
LEMMA DepsStep ==
  ASSUME TypeOK, DepsInv, Kind, JournalGrows
  PROVE  DepsInv'
<1>1. ASSUME NEW t \in Task, Has(t, "claimed")' PROVE Exists(t)
  BY <1>1, ClaimRecorded, Zenon DEF DepsInv
<1>2. ASSUME NEW t \in Task, Has(t, "claimed")' PROVE Exists(t)'
  BY <1>1, <1>2, StoredStep, Zenon
<1>3. ASSUME NEW t \in Task, Exists(t)'
      PROVE  \A d \in row'[t].deps : Exists(d)'
  <2>1. row'[t].deps = row[t].deps /\ \A d \in row[t].deps : Exists(d)
    BY <1>3, StoredStep, Zenon DEF SameTask, DepsExist, DepsInv, DepsRespected
  <2>2. row[t].deps \subseteq Task
    BY Zenon DEF TypeOK, Row
  <2> QED
    BY <2>1, <2>2, StoredStep, Zenon
<1>4. ASSUME NEW t \in Task, Has(t, "claimed")'
      PROVE  \A d \in row'[t].deps : row'[d].status = "completed"
  <2>1. Exists(t) /\ row'[t].deps = row[t].deps
    BY <1>1, <1>4, StoredStep, Zenon DEF SameTask
  <2>2. \A d \in row[t].deps : Exists(d)
    BY <2>1, Zenon DEF DepsInv, DepsRespected
  <2>3. \A d \in row[t].deps : row[d].status = "completed"
    BY <1>4, <2>1, <2>2, ClaimRecorded, Zenon DEF DepsInv, DepsRespected, DepsMet
  <2>4. row[t].deps \subseteq Task
    BY DEF TypeOK, Row
  <2> QED
    BY <2>1, <2>3, <2>4, StoredStep, Zenon
<1> QED
  BY <1>2, <1>3, <1>4, Zenon DEF DepsInv, DepsRespected

\* A task that was ever claimed had, and has, all its dependencies completed.
THEOREM DepsHold == Spec => []DepsRespected
<1>1. Init => DepsInv
  BY SMTT(30) DEF Init, DepsInv, DepsRespected, Exists, Has, Blank, Status
<1>2. ASSUME TypeOK, DepsInv, [Next]_vars PROVE DepsInv'
  BY <1>2, StepKinds, StepJournal, DepsStep, Zenon
<1>3. DepsInv => DepsRespected
  BY Zenon DEF DepsInv
<1> QED
  BY <1>1, <1>2, <1>3, TypeCorrect, PTL DEF Spec

\* No set of stored tasks in which each waits for another of the set, also
\* when the tasks are enqueued concurrently: what validateDeps promises.
THEOREM NoCycle == Spec => []NoDepCycle
<1>1. Init => NoDepCycle
  BY DEF Init, NoDepCycle, Exists, Blank, Status
<1>2. ASSUME TypeOK, DepsRespected, NoDepCycle, [Next]_vars PROVE NoDepCycle'
  <2> SUFFICES ASSUME NEW S \in SUBSET Task, \A t \in S : Exists(t)', S # {}
               PROVE  \E t \in S : row'[t].deps \cap S = {}
    BY Zenon DEF NoDepCycle
  <2>1. Kind
    BY <1>2, StepKinds, Zenon
  <2>2. \A t \in S : row'[t].deps = row[t].deps
    BY <1>2, <2>1, StoredStep, Zenon DEF SameTask
  <2>3. CASE \A t \in S : Exists(t)
    <3>1. \E t \in S : row[t].deps \cap S = {}
      BY <1>2, <2>3, Zenon DEF NoDepCycle
    <3> QED
      BY <2>2, <3>1, Zenon
  <2>4. ASSUME NEW n \in S, ~Exists(n) PROVE \E t \in S : row'[t].deps \cap S = {}
    <3>1. DepsExist(n) /\ \A w \in Task \ {n} : row'[w] = row[w]
      BY <1>2, <2>1, <2>4, StoredStep, Zenon
    <3>2. \A w \in S \ {n} : Exists(w)
      BY <3>1, Zenon DEF Exists
    <3>3. \A w \in S : n \notin row[w].deps
      BY <1>2, <2>4, <3>1, <3>2, Zenon DEF DepsExist, DepsRespected
    <3>4. CASE S \ {n} = {}
      BY <2>2, <3>3, <3>4, Zenon
    <3>5. CASE S \ {n} # {}
      <4>1. \E t \in S \ {n} : row[t].deps \cap (S \ {n}) = {}
        BY <1>2, <3>2, <3>5, Zenon DEF NoDepCycle
      <4> QED
        BY <2>2, <3>3, <4>1, ZenonT(40)
    <3> QED
      BY <3>4, <3>5, Zenon
  <2> QED
    BY <2>3, <2>4, Zenon
<1> QED
  BY <1>1, <1>2, TypeCorrect, DepsHold, PTL DEF Spec

\* One stored task per dedup key, however the calls to Enqueue interleave.
THEOREM DedupHolds == Spec => []DedupUnique
<1>1. Init => DedupUnique
  BY DEF Init, DedupUnique, Exists, Blank, Status
<1>2. ASSUME TypeOK, DedupUnique, [Next]_vars PROVE DedupUnique'
  <2> SUFFICES ASSUME NEW t \in Task, NEW u \in Task, Exists(t)', Exists(u)',
                      row'[t].key # NoKey, row'[t].key = row'[u].key, t # u
               PROVE  FALSE
    BY Zenon DEF DedupUnique
  <2>1. Kind
    BY <1>2, StepKinds, Zenon
  <2>2. row'[t].key = row[t].key /\ row'[u].key = row[u].key
    BY <1>2, <2>1, StoredStep, Zenon DEF SameTask
  <2>3. Exists(t) \/ Exists(u)
    BY <1>2, <2>1, StoredStep, Zenon DEF Exists
  <2>4. ~Exists(t) => ~Duplicate(t)
    BY <1>2, <2>1, StoredStep, Zenon
  <2>5. ~Exists(u) => ~Duplicate(u)
    BY <1>2, <2>1, StoredStep, Zenon
  <2> QED
    BY <1>2, <2>2, <2>3, <2>4, <2>5, Zenon DEF DedupUnique, Duplicate
<1> QED
  BY <1>1, <1>2, TypeCorrect, PTL DEF Spec

-----------------------------------------------------------------------------
(* What a step may never do *)

\* task.CanTransitionTo lists every change of a status, and the journal is
\* append-only.
THEOREM TransitionsLegal == Spec => LegalTransitions
<1> DEFINE A == \A t \in Task :
       /\ row'[t].status # row[t].status => CanTransitionTo(row[t].status, row'[t].status)
       /\ SubSeq(facts'[t], 1, Len(facts[t])) = facts[t]
<1>1. ASSUME TypeOK, [Next]_vars PROVE A
  <2> SUFFICES ASSUME NEW t \in Task
               PROVE  /\ row'[t].status # row[t].status =>
                           CanTransitionTo(row[t].status, row'[t].status)
                      /\ SubSeq(facts'[t], 1, Len(facts[t])) = facts[t]
    OBVIOUS
  <2>1. Kind /\ JournalGrows
    BY <1>1, StepKinds, StepJournal, Zenon
  <2>2. row'[t].status # row[t].status => CanTransitionTo(row[t].status, row'[t].status)
    <3> SUFFICES ASSUME row'[t].status # row[t].status
                 PROVE  CanTransitionTo(row[t].status, row'[t].status)
      OBVIOUS
    <3>1. CASE Entered(t) \/ Inserted(t) \/ Refused(t) \/ Operated(t) \/ Ended(t)
      BY <3>1, Zenon DEF Entered, Inserted, Refused, Operated, Ended, CanTransitionTo
    <3>2. CASE \E o \in Owner, until \in Nat : Granted(t, o, until)
      BY <3>2, Zenon DEF Granted, CanTransitionTo
    <3>3. CASE \E k \in 1..Len(claims), until \in Nat :
                 Renewed(k, until) /\ t = claims[k].task
      BY <3>3, Zenon DEF Renewed, Fenced
    <3> QED
      BY <2>1, <3>1, <3>2, <3>3, RowKind, Zenon
  <2>3. SubSeq(facts'[t], 1, Len(facts[t])) = facts[t]
    <3>1. PICK g \in Seq(Fact) : facts'[t] = facts[t] \o g
      BY <2>1, Zenon DEF JournalGrows, Appended
    <3>2. facts[t] \in Seq(Fact)
      BY <1>1, Zenon DEF TypeOK
    <3> QED
      BY <3>1, <3>2
  <2> QED
    BY <2>2, <2>3, Zenon
<1> QED
  BY <1>1, TypeCorrect, PTL DEF Spec, LegalTransitions

\* Scaling keeps the order of two priorities.
LEMMA ScaleMonotone ==
  ASSUME NEW p \in Int, NEW q \in Int, p <= q, NEW a \in Nat
  PROVE  p * a <= q * a /\ p * a \in Int /\ q * a \in Int
<1>1. q = p + (q - p) /\ q - p \in Nat
  OBVIOUS
<1>2. q * a = p * a + (q - p) * a
  OBVIOUS
<1>3. (q - p) * a \in Nat
  BY <1>1
<1> QED
  BY <1>2, <1>3

\* A task that is neither more important nor older does not come first.
LEMMA OlderFirst ==
  ASSUME TypeOK, NEW t \in Task, NEW u \in Task, NEW at \in Nat,
         row[t].prio <= row[u].prio, row[u].created < row[t].created
  PROVE  ~Before(t, u, at)
<1> DEFINE p == row[t].prio  q == row[u].prio
           c == row[t].created  d == row[u].created
           cap == MaxBonus * AgePerPoint
           bt == IF at - c < cap THEN at - c ELSE cap
           bu == IF at - d < cap THEN at - d ELSE cap
           pa == p * AgePerPoint
           qa == q * AgePerPoint
<1>1. p \in Int /\ q \in Int /\ c \in Nat /\ d \in Nat /\ p <= q /\ d < c
  BY Zenon DEF TypeOK, Row
<1>2. AgePerPoint \in Nat /\ MaxBonus \in Nat /\ cap \in Nat
  BY TaskQueueAssumption
<1>3. pa <= qa /\ pa \in Int /\ qa \in Int
  BY <1>1, <1>2, ScaleMonotone, Zenon
<1> HIDE DEF cap, c, d
<1>4. bt <= bu /\ bt \in Int /\ bu \in Int
  BY <1>1, <1>2
<1> HIDE DEF bt, bu, pa, qa
<1>5. ~(pa + bt > qa + bu)
  BY <1>3, <1>4
<1>6. Effective(t, at) = pa + bt /\ Effective(u, at) = qa + bu
  BY Zenon DEF Effective, pa, qa, bt, bu, cap, c, d
<1>7. ~(c < d) /\ c # d
  BY <1>1
<1> QED
  BY <1>5, <1>6, <1>7, Zenon DEF Before, c, d

\* ClaimDue's order: a task that is due and waits for nothing is not overtaken
\* by one that is neither more important nor older, although the bonus is
\* capped and the instant of the claim may precede both creations.
THEOREM OrderIsFair == Spec => NotOvertaken
<1> DEFINE A == \A t, u \in Task :
       /\ row[u].status = "pending" /\ row[u].notBefore = 0 /\ DepsMet(u)
       /\ row[u].prio >= row[t].prio /\ row[u].created < row[t].created
       => row'[t].token \in {0, row[t].token}
<1>1. ASSUME TypeOK, LeaseOfNewestClaim, [Next]_vars PROVE A
  <2> SUFFICES ASSUME NEW t \in Task, NEW u \in Task, row[u].status = "pending",
                      row[u].notBefore = 0, DepsMet(u), row[u].prio >= row[t].prio,
                      row[u].created < row[t].created,
                      row'[t].token # 0, row'[t].token # row[t].token
               PROVE  FALSE
    OBVIOUS
  <2>1. Kind
    BY <1>1, StepKinds, Zenon
  <2>2. ASSUME NEW o \in Owner, NEW until \in Nat, Granted(t, o, until) PROVE FALSE
    <3>1. PICK at \in 1..clock : First(t, at)
      BY <2>2, Zenon DEF Granted
    <3>2. at \in Nat /\ 0 <= at
      BY <1>1, SMTT(30) DEF TypeOK
    <3>3. u \in Candidates(at)
      BY <3>2, Zenon DEF Candidates, Due
    <3>4. row[t].prio <= row[u].prio /\ u # t
      BY <1>1 DEF TypeOK, Row
    <3>5. Before(t, u, at)
      BY <3>1, <3>3, <3>4, Zenon DEF First
    <3> QED
      BY <1>1, <3>2, <3>4, <3>5, OlderFirst, Zenon
  <2>3. ~Entered(t) /\ ~Refused(t) /\ ~Ended(t)
    BY Zenon DEF Entered, Refused, Ended, Free
  <2>4. ASSUME Inserted(t) \/ Operated(t) PROVE FALSE
    <3>1. row[t].status # "running"
      BY <2>4, Zenon DEF Inserted, Operated
    <3>2. Free(row[t])
      BY <1>1, <3>1, Zenon DEF LeaseOfNewestClaim, Free
    <3> QED
      BY <2>4, <3>2, Zenon DEF Inserted, Operated, Free
  <2>5. ASSUME NEW k \in 1..Len(claims), NEW until \in Nat, Renewed(k, until),
               t = claims[k].task
        PROVE  FALSE
    BY <2>5, Zenon DEF Renewed
  <2> QED
    BY <2>1, <2>2, <2>3, <2>4, <2>5, RowKind, Zenon
<1> QED
  BY <1>1, TypeCorrect, NewestClaimLeased, PTL DEF Spec, NotOvertaken

-----------------------------------------------------------------------------
(* The journal *)

\* A journal whose lifecycle facts follow one another as they may, the newest
\* being f and the newest count being n.
Told(fs, f, n) ==
  /\ \A i, j \in 1..Len(fs) : Adjacent(fs, i, j) => Follows(fs[i], fs[j])
  /\ \E i \in Newest(fs, Lifecycle) : fs[i] = f
  /\ \E i \in Newest(fs, Counted) : fs[i].attempt = n

\* There is one newest fact.
LEMMA OneNewest ==
  ASSUME NEW fs \in Seq(Fact), NEW types, NEW i \in Newest(fs, types),
         NEW j \in Newest(fs, types)
  PROVE  i = j
<1>1. Len(fs) \in Nat
  BY SeqShape, Zenon
<1>2. /\ i \in 1..Len(fs) /\ fs[i].type \in types
      /\ \A k \in (i + 1)..Len(fs) : fs[k].type \notin types
      /\ j \in 1..Len(fs) /\ fs[j].type \in types
      /\ \A k \in (j + 1)..Len(fs) : fs[k].type \notin types
  BY Zenon DEF Newest
<1>3. ~(i < j) /\ ~(j < i)
  <2>1. i < j => j \in (i + 1)..Len(fs)
    BY <1>1, <1>2
  <2>2. j < i => i \in (j + 1)..Len(fs)
    BY <1>1, <1>2
  <2> QED
    BY <1>2, <2>1, <2>2, Zenon
<1> QED
  BY <1>1, <1>2, <1>3

\* The facts of a journal with one more.
LEMMA AppendFacts ==
  ASSUME NEW fs \in Seq(Fact), NEW g \in Fact
  PROVE  /\ Len(fs) \in Nat /\ Append(fs, g) \in Seq(Fact)
         /\ Len(Append(fs, g)) = Len(fs) + 1 /\ Append(fs, g)[Len(fs) + 1] = g
         /\ \A i \in 1..Len(fs) : Append(fs, g)[i] = fs[i]
         /\ \A i \in 1..Len(Append(fs, g)) : i \in 1..Len(fs) \/ i = Len(fs) + 1
         /\ \A i \in 1..Len(fs) : i \in 1..Len(Append(fs, g))
<1>1. Len(fs) \in Nat
  BY SeqShape, Zenon
<1>2. /\ Append(fs, g) \in Seq(Fact)
      /\ Len(Append(fs, g)) = Len(fs) + 1 /\ Append(fs, g)[Len(fs) + 1] = g
      /\ \A i \in 1..Len(fs) : Append(fs, g)[i] = fs[i]
  OBVIOUS
<1> QED
  BY <1>1, <1>2

\* The newest fact of some types is the one appended, or the one before.
LEMMA AppendNewest ==
  ASSUME NEW fs \in Seq(Fact), NEW g \in Fact, NEW types
  PROVE  /\ g.type \in types => Len(fs) + 1 \in Newest(Append(fs, g), types)
         /\ g.type \notin types =>
              \A i \in Newest(fs, types) : i \in Newest(Append(fs, g), types)
<1> DEFINE h == Append(fs, g)
<1>0. /\ Len(fs) \in Nat /\ Len(h) = Len(fs) + 1 /\ h[Len(fs) + 1] = g
      /\ \A i \in 1..Len(fs) : h[i] = fs[i] /\ i \in 1..Len(h)
  BY AppendFacts
<1> HIDE DEF h
<1>1. ASSUME g.type \in types PROVE Len(fs) + 1 \in Newest(h, types)
  <2>1. /\ Len(fs) + 1 \in 1..Len(h)
        /\ \A k \in (Len(fs) + 1 + 1)..Len(h) : FALSE
    BY <1>0
  <2> QED
    BY <1>0, <1>1, <2>1, Zenon DEF Newest
<1>2. ASSUME g.type \notin types, NEW i \in Newest(fs, types) PROVE i \in Newest(h, types)
  <2>1. /\ i \in 1..Len(fs) /\ fs[i].type \in types
        /\ \A k \in (i + 1)..Len(fs) : fs[k].type \notin types
    BY Zenon DEF Newest
  <2>2. ASSUME NEW k \in (i + 1)..Len(h) PROVE h[k].type \notin types
    <3>1. (k \in (i + 1)..Len(fs) /\ k \in 1..Len(fs)) \/ k = Len(fs) + 1
      BY <1>0, <2>1
    <3> QED
      BY <1>0, <1>2, <2>1, <3>1, Zenon
  <2>3. i \in 1..Len(h) /\ h[i].type \in types
    BY <1>0, <2>1, Zenon
  <2> QED
    BY <2>2, <2>3, Zenon DEF Newest
<1> QED
  BY <1>1, <1>2, Zenon DEF h

\* The pairs of a journal with one more fact.
LEMMA AppendPairs ==
  ASSUME NEW fs \in Seq(Fact), NEW g \in Fact,
         NEW i \in 1..Len(Append(fs, g)), NEW j \in 1..Len(Append(fs, g)),
         Adjacent(Append(fs, g), i, j)
  PROVE  \/ i \in 1..Len(fs) /\ j \in 1..Len(fs) /\ Adjacent(fs, i, j)
         \/ j = Len(fs) + 1 /\ i \in Newest(fs, Lifecycle) /\ g.type \in Lifecycle
<1> DEFINE h == Append(fs, g)
<1>0. /\ Len(fs) \in Nat /\ Len(h) = Len(fs) + 1 /\ h[Len(fs) + 1] = g
      /\ \A k \in 1..Len(fs) : h[k] = fs[k]
      /\ i \in 1..Len(h) /\ j \in 1..Len(h)
  BY AppendFacts, Zenon
<1>1. /\ i < j /\ h[i].type \in Lifecycle /\ h[j].type \in Lifecycle
      /\ \A k \in (i + 1)..(j - 1) : h[k].type \notin Lifecycle
  BY Zenon DEF Adjacent
<1> HIDE DEF h
<1>2. i \in 1..Len(fs) /\ (j \in 1..Len(fs) \/ j = Len(fs) + 1)
  BY <1>0, <1>1
<1>3. \A k \in (i + 1)..(j - 1) : k \in 1..Len(fs)
  BY <1>0
<1>4. CASE j \in 1..Len(fs)
  <2>1. h[i] = fs[i] /\ h[j] = fs[j]
    BY <1>0, <1>2, <1>4, Zenon
  <2> QED
    BY <1>0, <1>1, <1>2, <1>3, <1>4, <2>1, Zenon DEF Adjacent
<1>5. CASE j = Len(fs) + 1
  <2>1. fs[i].type \in Lifecycle /\ g.type \in Lifecycle
    BY <1>0, <1>1, <1>2, <1>5, Zenon
  <2>2. \A k \in (i + 1)..Len(fs) : k \in (i + 1)..(j - 1)
    BY <1>0, <1>5
  <2>3. \A k \in (i + 1)..Len(fs) : fs[k].type \notin Lifecycle
    BY <1>0, <1>1, <1>3, <2>2, Zenon
  <2> QED
    BY <1>2, <1>5, <2>1, <2>3, Zenon DEF Newest
<1> QED
  BY <1>2, <1>4, <1>5, Zenon

\* A lifecycle fact that may follow the newest one.
LEMMA ToldOn ==
  ASSUME NEW fs \in Seq(Fact), NEW f, NEW n, Told(fs, f, n), NEW g \in Fact,
         g.type \in Lifecycle, Follows(f, g)
  PROVE  Told(Append(fs, g), g, IF g.type \in Counted THEN g.attempt ELSE n)
<1> DEFINE h == Append(fs, g)
<1>0. /\ Len(fs) \in Nat /\ h[Len(fs) + 1] = g
      /\ \A k \in 1..Len(fs) : h[k] = fs[k]
  BY AppendFacts, Zenon
<1>1. /\ Len(fs) + 1 \in Newest(h, Lifecycle)
      /\ g.type \in Counted => Len(fs) + 1 \in Newest(h, Counted)
      /\ g.type \notin Counted => \A i \in Newest(fs, Counted) : i \in Newest(h, Counted)
  BY AppendNewest, Zenon
<1>2. PICK i0 \in Newest(fs, Lifecycle) : fs[i0] = f
  BY Zenon DEF Told
<1>3. PICK c0 \in Newest(fs, Counted) : fs[c0].attempt = n
  BY Zenon DEF Told
<1>4. c0 \in 1..Len(fs) /\ i0 \in 1..Len(fs)
  BY Zenon DEF Newest
<1>5. ASSUME NEW i \in 1..Len(h), NEW j \in 1..Len(h), Adjacent(h, i, j)
      PROVE  Follows(h[i], h[j])
  <2>1. CASE i \in 1..Len(fs) /\ j \in 1..Len(fs) /\ Adjacent(fs, i, j)
    <3>1. h[i] = fs[i] /\ h[j] = fs[j] /\ Follows(fs[i], fs[j])
      BY <1>0, <2>1, Zenon DEF Told
    <3> QED
      BY <3>1, Zenon
  <2>2. CASE j = Len(fs) + 1 /\ i \in Newest(fs, Lifecycle)
    <3>1. i = i0
      BY <1>2, <2>2, OneNewest, Zenon
    <3>2. h[i] = f /\ h[j] = g
      BY <1>0, <1>2, <1>4, <2>2, <3>1, Zenon
    <3> QED
      BY <3>2, Zenon
  <2> QED
    BY <1>5, <2>1, <2>2, AppendPairs, Zenon
<1> HIDE DEF h
<1>6. \E i \in Newest(h, Counted) :
        h[i].attempt = IF g.type \in Counted THEN g.attempt ELSE n
  BY <1>0, <1>1, <1>3, <1>4, Zenon
<1>7. \E i \in Newest(h, Lifecycle) : h[i] = g
  BY <1>0, <1>1, Zenon
<1>8. Told(h, g, IF g.type \in Counted THEN g.attempt ELSE n)
  BY <1>5, <1>6, <1>7, Zenon DEF Told
<1> QED
  BY <1>8, Zenon DEF h

\* A fact that says nothing of the status.
LEMMA ToldAside ==
  ASSUME NEW fs \in Seq(Fact), NEW f, NEW n, Told(fs, f, n), NEW g \in Fact,
         g.type \notin Lifecycle
  PROVE  Told(Append(fs, g), f, n)
<1> DEFINE h == Append(fs, g)
<1>0. /\ Len(fs) \in Nat /\ \A k \in 1..Len(fs) : h[k] = fs[k]
  BY AppendFacts, Zenon
<1>1. g.type \notin Counted
  BY Zenon DEF Counted, Lifecycle, FactType
<1>2. /\ \A i \in Newest(fs, Lifecycle) : i \in Newest(h, Lifecycle)
      /\ \A i \in Newest(fs, Counted) : i \in Newest(h, Counted)
  BY <1>1, AppendNewest, Zenon
<1>3. ASSUME NEW i \in 1..Len(h), NEW j \in 1..Len(h), Adjacent(h, i, j)
      PROVE  Follows(h[i], h[j])
  <2>1. i \in 1..Len(fs) /\ j \in 1..Len(fs) /\ Adjacent(fs, i, j)
    BY <1>3, AppendPairs, Zenon
  <2>2. h[i] = fs[i] /\ h[j] = fs[j] /\ Follows(fs[i], fs[j])
    BY <1>0, <2>1, Zenon DEF Told
  <2> QED
    BY <2>2, Zenon
<1>4. \A types : \A i \in Newest(fs, types) : h[i] = fs[i]
  BY <1>0, Zenon DEF Newest
<1>5. /\ \E i \in Newest(h, Lifecycle) : h[i] = f
      /\ \E i \in Newest(h, Counted) : h[i].attempt = n
  BY <1>2, <1>4, Zenon DEF Told
<1> QED
  BY <1>3, <1>5, Zenon DEF Told

\* The first fact of a task.
LEMMA ToldFirst ==
  ASSUME NEW g \in Fact, g.type = "enqueued"
  PROVE  Told(Append(<<>>, g), g, g.attempt)
<1>1. <<>> \in Seq(Fact) /\ Len(<<>>) = 0
  OBVIOUS
<1>2. g.type \in Lifecycle /\ g.type \in Counted
  BY Zenon DEF Lifecycle, Counted, FactType
<1> DEFINE h == Append(<<>>, g)
<1>3. /\ Len(h) = 1 /\ h[1] = g
  BY <1>1
<1>4. 1 \in Newest(h, Lifecycle) /\ 1 \in Newest(h, Counted)
  <2>1. Len(<<>>) + 1 = 1
    BY <1>1
  <2> QED
    BY <1>1, <1>2, <2>1, AppendNewest, Zenon
<1> HIDE DEF h
<1>5. \A i, j \in 1..Len(h) : ~Adjacent(h, i, j)
  BY <1>3 DEF Adjacent
<1>6. Told(h, g, g.attempt)
  BY <1>3, <1>4, <1>5, Zenon DEF Told
<1> QED
  BY <1>6, Zenon DEF h

\* What a step does to the row of u and to its journal: nothing that counts,
\* or an Enqueue under way; one lifecycle fact; two of them.
Aside(u) ==
  /\ row'[u].status = row[u].status /\ row'[u].attempts = row[u].attempts
  /\ row'[u].owner = row[u].owner
  /\ \/ facts'[u] = facts[u]
     \/ /\ Exists(u)
        /\ \E g \in Fact : g.type \notin Lifecycle /\ facts'[u] = Append(facts[u], g)

Calls(u) ==
  /\ ~Exists(u) /\ row'[u].status \notin Status /\ row'[u].attempts = 0
  /\ facts'[u] = facts[u]

Starts(u) ==
  /\ ~Exists(u) /\ row'[u].status = "pending" /\ row'[u].attempts = row[u].attempts
  /\ facts'[u] = Append(facts[u], F("enqueued", NoOwner, 0))

\* The row and the newest fact say the same.
Shows(u, g, n) ==
  /\ row'[u].status = StatusAfter(g.type)
  /\ row'[u].attempts = IF g.type \in Counted THEN g.attempt ELSE n
  /\ g.type = "claimed" => g.owner = row'[u].owner

Writes(u, g) ==
  /\ \/ /\ row[u].status = "running" /\ g.owner = row[u].owner
        /\ g.type \in {"completed", "failed", "requeued", "cancelled"}
     \/ row[u].status = "pending" /\ g.type \in {"claimed", "cancelled"}
     \/ row[u].status = "dead" /\ g.type \in {"enqueued", "cancelled"}
  /\ Shows(u, g, row[u].attempts)
  /\ facts'[u] = Append(facts[u], g)

WritesTwo(u, f, g) ==
  /\ row[u].status = "running" /\ f.owner = row[u].owner
  /\ \/ f.type = "released" /\ g.type \in {"claimed", "cancelled"}
     \/ f.type = "failed" /\ g.type = "dead-lettered"
  /\ Shows(u, g, IF f.type \in Counted THEN f.attempt ELSE row[u].attempts)
  /\ facts'[u] = Append(Append(facts[u], f), g)

Chapter(u) ==
  \/ Aside(u) \/ Calls(u) \/ Starts(u)
  \/ \E g \in Fact : Writes(u, g)
  \/ \E f, g \in Fact : WritesTwo(u, f, g)

\* The journal explains the row of u, and is a lifecycle.
Storied(u) ==
  IF Exists(u)
    THEN \E f \in Fact :
           /\ Told(facts[u], f, row[u].attempts)
           /\ f.type \in Lifecycle \ {"released"} /\ row[u].status = StatusAfter(f.type)
           /\ f.type = "claimed" => f.owner = row[u].owner
    ELSE facts[u] = <<>> /\ row[u].attempts = 0

\* The status after each type of fact.
LEMMA StatusTable ==
  /\ \A x \in {"enqueued", "failed", "requeued"} : StatusAfter(x) = "pending"
  /\ \A x \in {"claimed", "released"} : StatusAfter(x) = "running"
  /\ StatusAfter("completed") = "completed" /\ StatusAfter("dead-lettered") = "dead"
  /\ StatusAfter("cancelled") = "cancelled"
BY Zenon DEF StatusAfter

\* The newest fact of a task, by its status.
LEMMA NewestByStatus ==
  ASSUME NEW f \in Fact, f.type \in Lifecycle \ {"released"}
  PROVE  /\ StatusAfter(f.type) \in Status
         /\ StatusAfter(f.type) = "running" => f.type = "claimed"
         /\ StatusAfter(f.type) = "pending" => f.type \in {"enqueued", "failed", "requeued"}
         /\ StatusAfter(f.type) = "dead" => f.type = "dead-lettered"
<1>1. f.type \in {"enqueued", "failed", "requeued"} \/ f.type = "claimed"
      \/ f.type = "completed" \/ f.type = "dead-lettered" \/ f.type = "cancelled"
  BY Zenon DEF Lifecycle, FactType
<1> QED
  BY <1>1, StatusTable, Zenon DEF Status

\* A step keeps the story straight.
LEMMA StoryStep ==
  ASSUME TypeOK, NEW u \in Task, Storied(u), Chapter(u)
  PROVE  Storied(u)'
<1>0. facts[u] \in Seq(Fact)
  BY Zenon DEF TypeOK
<1>1. CASE Aside(u)
  <2>1. CASE ~Exists(u)
    <3>1. ~(row'[u].status \in Status) /\ facts'[u] = facts[u]
      BY <1>1, <2>1, Zenon DEF Aside, Exists
    <3> QED
      BY <1>1, <2>1, <3>1, Zenon DEF Aside, Storied, Exists
  <2>2. CASE Exists(u)
    <3>1. PICK f \in Fact :
           /\ Told(facts[u], f, row[u].attempts)
           /\ f.type \in Lifecycle \ {"released"} /\ row[u].status = StatusAfter(f.type)
           /\ f.type = "claimed" => f.owner = row[u].owner
      BY <2>2, Zenon DEF Storied
    <3>2. Told(facts'[u], f, row[u].attempts)
      BY <1>0, <1>1, <3>1, ToldAside, Zenon DEF Aside
    <3>3. /\ Told(facts'[u], f, row'[u].attempts) /\ row'[u].status = StatusAfter(f.type)
          /\ f.type = "claimed" => f.owner = row'[u].owner
      BY <1>1, <3>1, <3>2, Zenon DEF Aside
    <3>4. row'[u].status \in Status
      BY <1>1, <2>2, Zenon DEF Aside, Exists
    <3> QED
      BY <3>1, <3>3, <3>4, Zenon DEF Storied, Exists
  <2> QED
    BY <2>1, <2>2, Zenon
<1>2. CASE Calls(u)
  BY <1>2, Zenon DEF Calls, Storied, Exists
<1>3. CASE Starts(u)
  <2> DEFINE g == F("enqueued", NoOwner, 0)
  <2>1. g \in Fact /\ g.type = "enqueued" /\ g.attempt = 0
    BY Zenon DEF F, Fact, FactType
  <2> HIDE DEF g
  <2>2. facts'[u] = Append(<<>>, g) /\ row'[u].attempts = 0 /\ row'[u].status = "pending"
    BY <1>3, Zenon DEF Starts, Storied, g
  <2>3. Told(facts'[u], g, row'[u].attempts)
    BY <2>1, <2>2, ToldFirst, Zenon
  <2>4. "pending" = StatusAfter(g.type) /\ "pending" \in Status
        /\ g.type \in Lifecycle \ {"released"} /\ g.type # "claimed"
    BY <2>1, StatusTable, Zenon DEF Status, Lifecycle, FactType
  <2> QED
    BY <2>1, <2>2, <2>3, <2>4, Zenon DEF Storied, Exists
<1>4. ASSUME NEW g \in Fact, Writes(u, g) PROVE Storied(u)'
  <2>1. Exists(u)
    BY <1>4, Zenon DEF Writes, Exists, Status
  <2>2. PICK f \in Fact :
          /\ Told(facts[u], f, row[u].attempts)
          /\ f.type \in Lifecycle \ {"released"} /\ row[u].status = StatusAfter(f.type)
          /\ f.type = "claimed" => f.owner = row[u].owner
    BY <2>1, Zenon DEF Storied
  <2>3. Follows(f, g)
    BY <1>4, <2>2, NewestByStatus, Zenon DEF Writes, Follows
  <2>4. g.type \in Lifecycle \ {"released"}
    BY <1>4, Zenon DEF Writes, Lifecycle, FactType
  <2>5. Told(facts'[u], g, row'[u].attempts)
    BY <1>0, <1>4, <2>2, <2>3, <2>4, ToldOn, Zenon DEF Writes, Shows
  <2>6. row'[u].status \in Status
    BY <1>4, <2>4, NewestByStatus, Zenon DEF Writes, Shows
  <2> QED
    BY <1>4, <2>4, <2>5, <2>6, Zenon DEF Writes, Shows, Storied, Exists
<1>5. ASSUME NEW e \in Fact, NEW g \in Fact, WritesTwo(u, e, g) PROVE Storied(u)'
  <2>1. Exists(u)
    BY <1>5, Zenon DEF WritesTwo, Exists, Status
  <2>2. PICK f \in Fact :
          /\ Told(facts[u], f, row[u].attempts)
          /\ f.type \in Lifecycle \ {"released"} /\ row[u].status = StatusAfter(f.type)
          /\ f.type = "claimed" => f.owner = row[u].owner
    BY <2>1, Zenon DEF Storied
  <2>3. Follows(f, e) /\ Follows(e, g)
    BY <1>5, <2>2, NewestByStatus, Zenon DEF WritesTwo, Follows
  <2>4. e.type \in Lifecycle /\ g.type \in Lifecycle \ {"released"} /\ g.type \notin Counted
    BY <1>5, Zenon DEF WritesTwo, Lifecycle, FactType, Counted
  <2> DEFINE n == IF e.type \in Counted THEN e.attempt ELSE row[u].attempts
  <2>5. Told(Append(facts[u], e), e, n) /\ Append(facts[u], e) \in Seq(Fact)
    <3>1. Append(facts[u], e) \in Seq(Fact)
      BY <1>0, AppendFacts, Zenon
    <3>2. Told(Append(facts[u], e), e, n)
      BY <1>0, <2>2, <2>3, <2>4, ToldOn, Zenon
    <3> QED
      BY <3>1, <3>2, Zenon
  <2>6. row'[u].attempts = n /\ row'[u].status = StatusAfter(g.type)
        /\ (g.type = "claimed" => g.owner = row'[u].owner)
    BY <1>5, <2>4, Zenon DEF WritesTwo, Shows
  <2> HIDE DEF n
  <2>7. Told(facts'[u], g, n)
    BY <1>5, <2>3, <2>4, <2>5, ToldOn, Zenon DEF WritesTwo
  <2>8. row'[u].status \in Status
    BY <2>4, <2>6, NewestByStatus, Zenon
  <2> QED
    BY <2>4, <2>6, <2>7, <2>8, Zenon DEF Storied, Exists
<1> QED
  BY <1>1, <1>2, <1>3, <1>4, <1>5, Zenon DEF Chapter

\* appendFact adds one fact at the end of the journal of its task.
LEMMA RecordsOne ==
  ASSUME TypeOK, NEW t \in Task, NEW g \in Fact, Record(t, <<g>>)
  PROVE  facts'[t] = Append(facts[t], g) /\ \A u \in Task \ {t} : facts'[u] = facts[u]
<1>1. facts[t] \in Seq(Fact) /\ facts' = [facts EXCEPT ![t] = facts[t] \o <<g>>]
  BY Zenon DEF TypeOK, Record
<1>2. facts[t] \o <<g>> = Append(facts[t], g)
  BY <1>1
<1> QED
  BY <1>1, <1>2, Zenon DEF TypeOK

\* Two facts.
LEMMA RecordsTwo ==
  ASSUME TypeOK, NEW t \in Task, NEW f \in Fact, NEW g \in Fact, Record(t, <<f, g>>)
  PROVE  /\ facts'[t] = Append(Append(facts[t], f), g)
         /\ \A u \in Task \ {t} : facts'[u] = facts[u]
<1>1. facts[t] \in Seq(Fact) /\ facts' = [facts EXCEPT ![t] = facts[t] \o <<f, g>>]
  BY Zenon DEF TypeOK, Record
<1>2. /\ <<f>> \in Seq(Fact) /\ <<g>> \in Seq(Fact) /\ <<f, g>> = <<f>> \o <<g>>
      /\ Append(facts[t], f) \in Seq(Fact)
  <2>1. <<f>> \in Seq(Fact) /\ <<g>> \in Seq(Fact)
    OBVIOUS
  <2>2. <<f, g>> = <<f>> \o <<g>>
    BY TwoConcat, Zenon
  <2>3. Append(facts[t], f) \in Seq(Fact)
    BY <1>1, AppendFacts, Zenon
  <2> QED
    BY <2>1, <2>2, <2>3, Zenon
<1>3. facts[t] \o <<f, g>> = (facts[t] \o <<f>>) \o <<g>>
  BY <1>1, <1>2, SMTT(30)
<1>4. facts[t] \o <<f>> = Append(facts[t], f)
  BY <1>1
<1>5. Append(facts[t], f) \o <<g>> = Append(Append(facts[t], f), g)
  BY <1>2
<1>6. facts[t] \o <<f, g>> = Append(Append(facts[t], f), g)
  BY <1>3, <1>4, <1>5, Zenon
<1> QED
  BY <1>1, <1>6, Zenon DEF TypeOK

\* A fact as appendFact writes it.
LEMMA FactFields ==
  ASSUME NEW x \in FactType, NEW o \in Owner \cup {NoOwner}, NEW n \in Nat
  PROVE  /\ F(x, o, n) \in Fact /\ F(x, o, n).type = x /\ F(x, o, n).owner = o
         /\ F(x, o, n).attempt = n
BY Zenon DEF F, Fact

\* A task whose row and journal the step leaves alone.
LEMMA Elsewhere ==
  ASSUME TypeOK, NEW t \in Task, NEW r \in Row, row' = [row EXCEPT ![t] = r],
         NEW u \in Task, u # t, facts'[u] = facts[u]
  PROVE  Chapter(u)
<1>1. row'[u] = row[u]
  BY Zenon DEF TypeOK
<1> QED
  BY <1>1, Zenon DEF Chapter, Aside

\* A step that leaves r in the row of t and writes one lifecycle fact.
LEMMA OneWritten ==
  ASSUME TypeOK, NEW t \in Task, NEW r \in Row, row' = [row EXCEPT ![t] = r],
         NEW x \in FactType, NEW o \in Owner \cup {NoOwner}, NEW n \in Nat,
         Record(t, <<F(x, o, n)>>),
         \/ /\ row[t].status = "running" /\ o = row[t].owner
            /\ x \in {"completed", "failed", "requeued", "cancelled"}
         \/ row[t].status = "pending" /\ x \in {"claimed", "cancelled"}
         \/ row[t].status = "dead" /\ x \in {"enqueued", "cancelled"},
         r.status = StatusAfter(x),
         r.attempts = IF x \in Counted THEN n ELSE row[t].attempts,
         x = "claimed" => o = r.owner,
         NEW u \in Task
  PROVE  Chapter(u)
<1> DEFINE g == F(x, o, n)
<1>1. g \in Fact /\ g.type = x /\ g.owner = o /\ g.attempt = n
  BY FactFields, SMTT(30)
<1> HIDE DEF g
<1>2. facts'[t] = Append(facts[t], g) /\ \A v \in Task \ {t} : facts'[v] = facts[v]
  BY <1>1, RecordsOne, Zenon DEF g
<1>3. row'[t] = r
  BY Zenon DEF TypeOK
<1>4. Writes(t, g)
  BY <1>1, <1>2, <1>3, Zenon DEF Writes, Shows
<1>5. CASE u = t
  BY <1>1, <1>4, <1>5, Zenon DEF Chapter
<1>6. CASE u # t
  BY <1>2, <1>6, Elsewhere, Zenon
<1> QED
  BY <1>5, <1>6, Zenon

\* A step that leaves r in the row of t and writes two of them.
LEMMA TwoWritten ==
  ASSUME TypeOK, NEW t \in Task, NEW r \in Row, row' = [row EXCEPT ![t] = r],
         NEW x \in FactType, NEW y \in FactType,
         NEW o \in Owner \cup {NoOwner}, NEW p \in Owner \cup {NoOwner}, NEW n \in Nat,
         NEW m \in Nat, Record(t, <<F(x, o, n), F(y, p, m)>>),
         row[t].status = "running", o = row[t].owner,
         \/ x = "released" /\ y \in {"claimed", "cancelled"}
         \/ x = "failed" /\ y = "dead-lettered",
         r.status = StatusAfter(y),
         r.attempts = IF x = "failed" THEN n ELSE row[t].attempts,
         y = "claimed" => p = r.owner,
         NEW u \in Task
  PROVE  Chapter(u)
<1> DEFINE f == F(x, o, n)
           g == F(y, p, m)
<1>1. /\ f \in Fact /\ f.type = x /\ f.owner = o /\ f.attempt = n
      /\ g \in Fact /\ g.type = y /\ g.owner = p
  BY FactFields, SMTT(30)
<1> HIDE DEF f, g
<1>2. /\ facts'[t] = Append(Append(facts[t], f), g)
      /\ \A v \in Task \ {t} : facts'[v] = facts[v]
  BY <1>1, RecordsTwo, Zenon DEF f, g
<1>3. row'[t] = r
  BY Zenon DEF TypeOK
<1>4. WritesTwo(t, f, g)
  BY <1>1, <1>2, <1>3, Zenon DEF WritesTwo, Shows, Counted
<1>5. CASE u = t
  BY <1>1, <1>4, <1>5, Zenon DEF Chapter
<1>6. CASE u # t
  BY <1>2, <1>6, Elsewhere, Zenon
<1> QED
  BY <1>5, <1>6, Zenon

\* Enqueue.
LEMMA ProduceStory ==
  ASSUME TypeOK, NEW t \in Task, Produce(t), NEW u \in Task
  PROVE  Chapter(u)
<1>1. ASSUME NEW key \in Key \cup {NoKey}, NEW deps \in SUBSET Task, NEW prio \in Prio,
             NEW max \in Budget, NEW delay \in Delays,
             EnqueueLookup(t, key, deps, prio, max, delay)
      PROVE  Chapter(u)
  <2> DEFINE r == [Blank EXCEPT !.status = "calling", !.key = key, !.deps = deps,
                     !.prio = prio, !.max = max, !.notBefore = delay,
                     !.created = clock]
  <2>1. r \in Row /\ r.status = "calling" /\ r.attempts = 0
    BY TaskQueueAssumption, Zenon DEF TypeOK, Blank, Row, NoRow
  <2>2. row' = [row EXCEPT ![t] = r] /\ row[t].status = "absent" /\ facts' = facts
    BY <1>1, Zenon DEF EnqueueLookup
  <2> HIDE DEF r
  <2>3. row'[t] = r
    BY <2>2, Zenon DEF TypeOK
  <2>4. Calls(t)
    BY <2>1, <2>2, <2>3, Zenon DEF Calls, Exists, Status
  <2>5. CASE u = t
    BY <2>4, <2>5, Zenon DEF Chapter
  <2>6. CASE u # t
    BY <2>1, <2>2, <2>6, Elsewhere, Zenon
  <2> QED
    BY <2>5, <2>6, Zenon
<1>2. CASE EnqueueInsert(t) /\ (Duplicate(t) \/ ~DepsExist(t))
  <2> DEFINE r == [Blank EXCEPT !.status = "refused"]
  <2>1. r \in Row /\ r.status = "refused" /\ r.attempts = 0
    BY TaskQueueAssumption DEF Blank, Row, NoRow
  <2>2. row' = [row EXCEPT ![t] = r] /\ row[t].status = "calling" /\ facts' = facts
    BY <1>2, Zenon DEF EnqueueInsert
  <2> HIDE DEF r
  <2>3. row'[t] = r
    BY <2>2, Zenon DEF TypeOK
  <2>4. Calls(t)
    BY <2>1, <2>2, <2>3, Zenon DEF Calls, Exists, Status
  <2>5. CASE u = t
    BY <2>4, <2>5, Zenon DEF Chapter
  <2>6. CASE u # t
    BY <2>1, <2>2, <2>6, Elsewhere, Zenon
  <2> QED
    BY <2>5, <2>6, Zenon
<1>3. CASE EnqueueInsert(t) /\ ~(Duplicate(t) \/ ~DepsExist(t))
  <2> DEFINE r == [row[t] EXCEPT !.status = "pending"]
             g == F("enqueued", NoOwner, 0)
  <2>0. row[t] \in Row /\ g \in Fact
    BY Zenon DEF TypeOK, F, Fact, FactType
  <2>1. r \in Row /\ r.status = "pending" /\ r.attempts = row[t].attempts
    BY <2>0, Zenon DEF Row, Status
  <2>2. row' = [row EXCEPT ![t] = r] /\ row[t].status = "calling" /\ Record(t, <<g>>)
    BY <1>3, Zenon DEF EnqueueInsert
  <2> HIDE DEF r
  <2>3. row'[t] = r
    BY <2>2, Zenon DEF TypeOK
  <2>4. facts'[t] = Append(facts[t], g) /\ \A v \in Task \ {t} : facts'[v] = facts[v]
    BY <2>0, <2>2, RecordsOne, Zenon
  <2>5. Starts(t)
    BY <2>1, <2>2, <2>3, <2>4, Zenon DEF Starts, Exists, Status
  <2>6. CASE u = t
    BY <2>5, <2>6, Zenon DEF Chapter
  <2>7. CASE u # t
    BY <2>1, <2>2, <2>4, <2>7, Elsewhere, Zenon
  <2> QED
    BY <2>6, <2>7
<1> QED
  BY <1>1, <1>2, <1>3, Zenon DEF Produce

\* A step that leaves r in the row of t, and perhaps a fact beside the lifecycle.
LEMMA AsideWritten ==
  ASSUME TypeOK, NEW t \in Task, NEW r \in Row, row' = [row EXCEPT ![t] = r],
         r.status = row[t].status, r.attempts = row[t].attempts, r.owner = row[t].owner,
         Exists(t), NEW x \in FactType \ Lifecycle,
         UNCHANGED facts \/ Record(t, <<F(x, NoOwner, 0)>>),
         NEW u \in Task
  PROVE  Chapter(u)
<1> DEFINE g == F(x, NoOwner, 0)
<1>1. g \in Fact /\ g.type \notin Lifecycle
  BY FactFields, Zenon
<1> HIDE DEF g
<1>2. /\ facts'[t] = facts[t] \/ facts'[t] = Append(facts[t], g)
      /\ \A v \in Task \ {t} : facts'[v] = facts[v]
  BY <1>1, RecordsOne, Zenon DEF g
<1>3. row'[t] = r
  BY Zenon DEF TypeOK
<1>4. Aside(t)
  BY <1>1, <1>2, <1>3, Zenon DEF Aside
<1>5. CASE u = t
  BY <1>4, <1>5, Zenon DEF Chapter
<1>6. CASE u # t
  BY <1>2, <1>6, Elsewhere, Zenon
<1> QED
  BY <1>5, <1>6, Zenon

\* The operators.
LEMMA OperateStory ==
  ASSUME TypeOK, NEW t \in Task, Operate(t), NEW u \in Task
  PROVE  Chapter(u)
<1>0. /\ row[t] \in Row /\ 0 \in Nat /\ NoOwner \in Owner \cup {NoOwner}
      /\ {"cancelled", "enqueued"} \subseteq FactType
      /\ {"cancel-requested", "reprioritized"} \subseteq FactType \ Lifecycle
  BY Zenon DEF TypeOK, FactType, Lifecycle
<1>1. ASSUME Cancel(t) \/ DismissDead(t) PROVE Chapter(u)
  <2> DEFINE r == [row[t] EXCEPT !.status = "cancelled", !.owner = NoOwner, !.expires = 0]
  <2>1. r \in Row /\ r.status = "cancelled" /\ r.attempts = row[t].attempts
    BY <1>0, Zenon DEF Row, Status
  <2>2. /\ row' = [row EXCEPT ![t] = r] /\ row[t].status \in {"pending", "dead"}
        /\ Record(t, <<F("cancelled", NoOwner, 0)>>)
    BY <1>1, Zenon DEF Cancel, DismissDead
  <2> HIDE DEF r
  <2>3. r.status = StatusAfter("cancelled") /\ "cancelled" \notin Counted
    BY <2>1, StatusTable, Zenon DEF Counted
  <2> QED
    BY <1>0, <2>1, <2>2, <2>3, OneWritten, Zenon
<1>2. ASSUME NEW max \in Budget, RescueDead(t, max) PROVE Chapter(u)
  <2> DEFINE r == [row[t] EXCEPT !.status = "pending", !.attempts = 0, !.max = max,
                                 !.notBefore = 0, !.owner = NoOwner, !.expires = 0]
  <2>0. max \in Nat
    BY TaskQueueAssumption, Zenon
  <2>1. r \in Row /\ r.status = "pending" /\ r.attempts = 0
    BY <1>0, <2>0, Zenon DEF Row, Status
  <2>2. /\ row' = [row EXCEPT ![t] = r] /\ row[t].status = "dead"
        /\ Record(t, <<F("enqueued", NoOwner, 0)>>)
    BY <1>2, Zenon DEF RescueDead
  <2> HIDE DEF r
  <2>3. r.status = StatusAfter("enqueued") /\ "enqueued" \in Counted
    BY <2>1, StatusTable, Zenon DEF Counted
  <2> QED
    BY <1>0, <2>1, <2>2, <2>3, OneWritten, Zenon
<1>3. ASSUME NEW prio \in Prio, UpdatePendingPriority(t, prio) PROVE Chapter(u)
  <2> DEFINE r == [row[t] EXCEPT !.prio = prio]
  <2>0. prio \in Int
    BY TaskQueueAssumption, Zenon
  <2>1. /\ r \in Row /\ r.status = row[t].status /\ r.attempts = row[t].attempts
        /\ r.owner = row[t].owner
    BY <1>0, <2>0, Zenon DEF Row
  <2>2. /\ row' = [row EXCEPT ![t] = r] /\ Exists(t)
        /\ Record(t, <<F("reprioritized", NoOwner, 0)>>)
    BY <1>3, Zenon DEF UpdatePendingPriority, Exists, Status
  <2> HIDE DEF r
  <2> QED
    BY <1>0, <2>1, <2>2, AsideWritten, Zenon
<1>4. CASE CancelRunning(t)
  <2>1. /\ row' = [row EXCEPT ![t] = row[t]] /\ Exists(t)
        /\ Record(t, <<F("cancel-requested", NoOwner, 0)>>)
    BY <1>4, Zenon DEF CancelRunning, Exists, Status, TypeOK
  <2> QED
    BY <1>0, <2>1, AsideWritten, Zenon
<1> QED
  BY <1>1, <1>2, <1>3, <1>4, Zenon DEF Operate

\* ClaimDue.
LEMMA ClaimStory ==
  ASSUME TypeOK, NEW o \in Owner, NEW at \in 1..clock, NEW lease \in Leases,
         ClaimDue(o, at, lease), NEW u \in Task
  PROVE  Chapter(u)
<1>1. PICK t \in Task :
        \/ row[t].status = "pending" /\ Stamp(t, o, at, lease, <<>>)
        \/ /\ row[t].status = "running"
           /\ \/ Stamp(t, o, at, lease, <<F("released", row[t].owner, 0)>>)
              \/ FinalizeCancel(t, o)
  BY Zenon DEF ClaimDue
<1>0. /\ row[t] \in Row /\ 0 \in Nat /\ o \in Owner \cup {NoOwner}
      /\ row[t].owner \in Owner \cup {NoOwner}
      /\ at + lease \in Nat /\ Len(claims) + 1 \in Nat
      /\ {"claimed", "released", "cancelled"} \subseteq FactType
      /\ StatusAfter("claimed") = "running" /\ StatusAfter("cancelled") = "cancelled"
  <2>1. row[t] \in Row /\ clock \in Nat /\ lease \in Nat /\ Len(claims) \in Nat
    BY TaskQueueAssumption, SeqShape, Zenon DEF TypeOK
  <2>2. row[t].owner \in Owner \cup {NoOwner}
    BY <2>1, Zenon DEF Row
  <2>3. at + lease \in Nat /\ Len(claims) + 1 \in Nat
    BY <2>1
  <2> QED
    BY <2>1, <2>2, <2>3, StatusTable, Zenon DEF FactType
<1> DEFINE c == F("claimed", o, 0)
           b == F("released", row[t].owner, 0)
<1>2. c \in Fact /\ b \in Fact
  BY <1>0, FactFields
<1>3. ASSUME NEW fs, Stamp(t, o, at, lease, fs)
      PROVE  \E r \in Row : /\ row' = [row EXCEPT ![t] = r] /\ r.status = "running"
                            /\ r.owner = o /\ r.attempts = row[t].attempts
                            /\ Record(t, fs \o <<c>>)
  <2> DEFINE r == [row[t] EXCEPT !.status = "running", !.owner = o, !.expires = at + lease,
                                 !.token = Len(claims) + 1]
  <2>1. /\ r \in Row /\ r.status = "running" /\ r.owner = o
        /\ r.attempts = row[t].attempts
    BY <1>0, Zenon DEF Row, Status
  <2>2. row' = [row EXCEPT ![t] = r]
    BY <1>3, Zenon DEF Stamp, TypeOK
  <2>3. Record(t, fs \o <<c>>)
    BY <1>3, Zenon DEF Stamp
  <2> QED
    BY <2>1, <2>2, <2>3, Zenon
<1>4. CASE row[t].status = "pending" /\ Stamp(t, o, at, lease, <<>>)
  <2>1. PICK r \in Row : /\ row' = [row EXCEPT ![t] = r] /\ r.status = "running"
                         /\ r.owner = o /\ r.attempts = row[t].attempts
                         /\ Record(t, <<>> \o <<c>>)
    BY <1>3, <1>4, Zenon
  <2>2. <<>> \o <<c>> = <<c>>
    BY <1>2
  <2>3. "claimed" \notin Counted /\ Record(t, <<F("claimed", o, 0)>>)
    BY <2>1, <2>2, Zenon DEF Counted
  <2> QED
    BY <1>0, <1>4, <2>1, <2>3, OneWritten, Zenon
<1>5. CASE row[t].status = "running" /\ Stamp(t, o, at, lease, <<b>>)
  <2>1. PICK r \in Row : /\ row' = [row EXCEPT ![t] = r] /\ r.status = "running"
                         /\ r.owner = o /\ r.attempts = row[t].attempts
                         /\ Record(t, <<b>> \o <<c>>)
    BY <1>3, <1>5, Zenon
  <2>2. <<b>> \o <<c>> = <<b, c>>
    BY <1>2, TwoConcat, Zenon
  <2>3. Record(t, <<F("released", row[t].owner, 0), F("claimed", o, 0)>>)
    BY <2>1, <2>2, Zenon
  <2> QED
    BY <1>0, <1>5, <2>1, <2>3, TwoWritten, Zenon
<1>6. CASE row[t].status = "running" /\ FinalizeCancel(t, o)
  <2> DEFINE r == [Released(row[t]) EXCEPT !.status = "cancelled"]
  <2>1. r \in Row /\ r.status = "cancelled" /\ r.attempts = row[t].attempts
    BY <1>0, Zenon DEF Released, Row, Status
  <2>2. /\ row' = [row EXCEPT ![t] = r]
        /\ Record(t, <<F("released", row[t].owner, 0), F("cancelled", o, 0)>>)
    BY <1>6, Zenon DEF FinalizeCancel
  <2> HIDE DEF r
  <2> QED
    BY <1>0, <1>6, <2>1, <2>2, TwoWritten, Zenon
<1> QED
  BY <1>1, <1>4, <1>5, <1>6, Zenon

\* The holder of a claim.
LEMMA WorkStory ==
  ASSUME TypeOK, NEW k \in 1..Len(claims), Work(k), NEW u \in Task
  PROVE  Chapter(u)
<1> DEFINE t == claims[k].task
           o == row[t].owner
           n == row[t].attempts + 1
<1>0. /\ t \in Task /\ row[t] \in Row /\ o \in Owner \cup {NoOwner} /\ n \in Nat /\ 0 \in Nat
      /\ {"completed", "failed", "requeued", "cancelled", "dead-lettered"} \subseteq FactType
  <2>1. t \in Task /\ row[t] \in Row
    BY HeldRow, Zenon
  <2>2. o \in Owner \cup {NoOwner} /\ row[t].attempts \in Nat
    BY <2>1, Zenon DEF Row
  <2> QED
    BY <2>1, <2>2 DEF FactType
<1>1. ASSUME NEW at \in Instants(k), Complete(k, at) PROVE Chapter(u)
  <2> DEFINE r == [Released(row[t]) EXCEPT !.status = "completed"]
  <2>1. r \in Row /\ r.status = "completed" /\ r.attempts = row[t].attempts
    BY <1>0, Zenon DEF Released, Row, Status
  <2>2. /\ row' = [row EXCEPT ![t] = r] /\ row[t].status = "running"
        /\ Record(t, <<F("completed", o, 0)>>)
    BY <1>1, Zenon DEF Complete, Fenced
  <2>3. "completed" \notin Counted /\ StatusAfter("completed") = "completed"
    BY StatusTable, Zenon DEF Counted
  <2> HIDE DEF r, t
  <2> QED
    BY <1>0, <2>1, <2>2, <2>3, OneWritten, Zenon
<1>2. ASSUME NEW at \in Instants(k), NEW extend \in Leases, Heartbeat(k, at, extend)
      PROVE  Chapter(u)
  <2> DEFINE r == [row[t] EXCEPT !.expires = at + extend]
  <2>0. at + extend \in Nat
    <3>1. claims[k] \in Claim /\ clock \in Nat
      BY HeldRow, Zenon DEF TypeOK
    <3>2. claims[k].since \in Nat
      BY <3>1, Zenon DEF Claim
    <3> QED
      BY <3>1, <3>2, TaskQueueAssumption DEF Instants
  <2>1. /\ r \in Row /\ r.status = row[t].status /\ r.attempts = row[t].attempts
        /\ r.owner = o
    BY <1>0, <2>0, Zenon DEF Row
  <2>2. row' = [row EXCEPT ![t] = r] /\ row[t].status = "running" /\ facts' = facts
    BY <1>2, Zenon DEF Heartbeat, Fenced
  <2>3. Exists(t) /\ "orphaned" \in FactType \ Lifecycle
    BY <2>2, Zenon DEF Exists, Status, FactType, Lifecycle
  <2> HIDE DEF r, t
  <2> QED
    BY <1>0, <2>1, <2>2, <2>3, AsideWritten, Zenon
<1>3. ASSUME NEW delay \in Delays, Requeue(k, delay) PROVE Chapter(u)
  <2> DEFINE r == [Released(row[t]) EXCEPT !.status = "pending", !.notBefore = clock + delay]
  <2>0. clock + delay \in Nat
    BY TaskQueueAssumption DEF TypeOK
  <2>1. r \in Row /\ r.status = "pending" /\ r.attempts = row[t].attempts
    BY <1>0, <2>0, Zenon DEF Released, Row, Status
  <2>2. /\ row' = [row EXCEPT ![t] = r] /\ row[t].status = "running"
        /\ Record(t, <<F("requeued", o, 0)>>)
    BY <1>3, Zenon DEF Requeue, Fenced
  <2>3. "requeued" \notin Counted /\ StatusAfter("requeued") = "pending"
    BY StatusTable, Zenon DEF Counted
  <2> HIDE DEF r, t
  <2> QED
    BY <1>0, <2>1, <2>2, <2>3, OneWritten, Zenon
<1>4. CASE CancelOwned(k)
  <2> DEFINE r == [Released(row[t]) EXCEPT !.status = "cancelled"]
  <2>1. r \in Row /\ r.status = "cancelled" /\ r.attempts = row[t].attempts
    BY <1>0, Zenon DEF Released, Row, Status
  <2>2. /\ row' = [row EXCEPT ![t] = r] /\ row[t].status = "running"
        /\ Record(t, <<F("cancelled", o, 0)>>)
    BY <1>4, Zenon DEF CancelOwned, Fenced
  <2>3. "cancelled" \notin Counted /\ StatusAfter("cancelled") = "cancelled"
    BY StatusTable, Zenon DEF Counted
  <2> HIDE DEF r, t
  <2> QED
    BY <1>0, <2>1, <2>2, <2>3, OneWritten, Zenon
<1>5. ASSUME NEW max \in Nat, Fenced(k), DeadLetter(k, max) PROVE Chapter(u)
  <2> DEFINE r == [Released(row[t]) EXCEPT !.status = "dead", !.attempts = n, !.max = max]
  <2>1. r \in Row /\ r.status = "dead" /\ r.attempts = n
    BY <1>0, Zenon DEF Released, Row, Status
  <2>2. /\ row' = [row EXCEPT ![t] = r] /\ row[t].status = "running"
        /\ Record(t, <<F("failed", o, n), F("dead-lettered", o, n)>>)
    BY <1>5, Zenon DEF DeadLetter, Fenced
  <2>3. StatusAfter("dead-lettered") = "dead"
    BY StatusTable, Zenon
  <2> HIDE DEF r, t, n
  <2> QED
    BY <1>0, <2>1, <2>2, <2>3, TwoWritten, Zenon
<1>6. ASSUME NEW backoff \in Delays, Fenced(k), RetryRow(k, backoff) PROVE Chapter(u)
  <2> DEFINE r == [Released(row[t]) EXCEPT !.status = "pending", !.attempts = n,
                                           !.notBefore = clock + backoff]
  <2>0. clock + backoff \in Nat
    BY TaskQueueAssumption DEF TypeOK
  <2>1. r \in Row /\ r.status = "pending" /\ r.attempts = n
    BY <1>0, <2>0, Zenon DEF Released, Row, Status
  <2>2. /\ row' = [row EXCEPT ![t] = r] /\ row[t].status = "running"
        /\ Record(t, <<F("failed", o, n)>>)
    BY <1>6, Zenon DEF RetryRow, Fenced
  <2>3. "failed" \in Counted /\ StatusAfter("failed") = "pending"
    BY StatusTable, Zenon DEF Counted
  <2> HIDE DEF r, t, n
  <2> QED
    BY <1>0, <2>1, <2>2, <2>3, OneWritten, Zenon
<1>7. row[t].max \in Nat
  BY <1>0, Zenon DEF Row
<1>8. ASSUME NEW delay \in Delays, Fail(k, delay) PROVE Chapter(u)
  BY <1>5, <1>6, <1>7, <1>8, Zenon DEF Fail
<1>9. CASE FailPermanent(k)
  BY <1>0, <1>5, <1>9, Zenon DEF FailPermanent
<1> QED
  BY <1>1, <1>2, <1>3, <1>4, <1>8, <1>9, Zenon DEF Work

\* Every step is a chapter of the story of every task.
LEMMA StepStory ==
  ASSUME TypeOK, [Next]_vars, NEW u \in Task
  PROVE  Chapter(u)
<1>1. ASSUME NEW cutoff \in 1..clock, MarkOrphaned(cutoff) PROVE Chapter(u)
  <2> DEFINE g == F("orphaned", row[u].owner, 0)
  <2>1. row[u].owner \in Owner \cup {NoOwner} /\ row' = row
    BY <1>1, Zenon DEF TypeOK, Row, MarkOrphaned
  <2>2. g \in Fact /\ g.type \notin Lifecycle
    BY <2>1, FactFields, SMTT(30) DEF FactType, Lifecycle
  <2>3. \/ facts'[u] = facts[u]
        \/ Exists(u) /\ facts'[u] = Append(facts[u], g)
    BY <1>1, Zenon DEF MarkOrphaned, Exists, Status
  <2> HIDE DEF g
  <2> QED
    BY <2>1, <2>2, <2>3, Zenon DEF Chapter, Aside
<1>2. CASE Tick \/ UNCHANGED vars
  BY <1>2, Zenon DEF Tick, vars, Chapter, Aside
<1> QED
  BY <1>1, <1>2, ProduceStory, OperateStory, ClaimStory, WorkStory, Zenon DEF Next

\* The inductive invariant of the journal.
JournalInv == TypeOK /\ \A u \in Task : Storied(u)

\* Every reachable state satisfies it.
LEMMA JournalTold == Spec => []JournalInv
<1>1. Init => JournalInv
  <2> SUFFICES ASSUME Init PROVE JournalInv
    OBVIOUS
  <2>1. \A u \in Task : row[u].status = "absent" /\ row[u].attempts = 0 /\ facts[u] = <<>>
    BY Zenon DEF Init, Blank
  <2>2. \A u \in Task : ~Exists(u)
    BY <2>1, Zenon DEF Exists, Status
  <2> QED
    BY <2>1, <2>2, TypeInit, Zenon DEF JournalInv, Storied
<1>2. JournalInv /\ [Next]_vars => JournalInv'
  <2> SUFFICES ASSUME JournalInv, [Next]_vars PROVE JournalInv'
    OBVIOUS
  <2>1. TypeOK /\ TypeOK'
    BY TypeStep, Zenon DEF JournalInv
  <2>2. \A u \in Task : Storied(u)'
    BY <2>1, StepStory, StoryStep, Zenon DEF JournalInv
  <2> QED
    BY <2>1, <2>2, Zenon DEF JournalInv
<1> QED
  BY <1>1, <1>2, PTL DEF Spec

\* The journal of a task gives its status and its attempts
\* (TaskQueue!JournalExplainsRow), in every reachable state of the queue.
THEOREM JournalExplains == Spec => []JournalExplainsRow
<1>1. JournalInv => JournalExplainsRow
  BY Zenon DEF JournalInv, Storied, Told, JournalExplainsRow
<1> QED
  BY <1>1, JournalTold, PTL

\* Every claim in the journal is ended once by its worker before the next one,
\* and nothing follows a terminal fact (TaskQueue!JournalIsLifecycle).
THEOREM LifecycleHolds == Spec => []JournalIsLifecycle
<1>1. JournalInv => JournalIsLifecycle
  <2> SUFFICES ASSUME JournalInv, NEW t \in Task, NEW i \in 1..Len(facts[t]),
                      NEW j \in 1..Len(facts[t]), Adjacent(facts[t], i, j)
               PROVE  Follows(facts[t][i], facts[t][j])
    BY Zenon DEF JournalIsLifecycle
  <2>1. CASE Exists(t)
    BY <2>1, Zenon DEF JournalInv, Storied, Told
  <2>2. CASE ~Exists(t)
    <3>1. facts[t] = <<>>
      BY <2>2, Zenon DEF JournalInv, Storied
    <3> QED
      BY <3>1
  <2> QED
    BY <2>1, <2>2, Zenon
<1> QED
  BY <1>1, JournalTold, PTL
=============================================================================

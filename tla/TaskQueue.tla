------------------------------ MODULE TaskQueue ------------------------------
(***************************************************************************)
(* The task queue on SQLite: producers enqueue, workers claim a due task   *)
(* under a lease, renew it and finish it with the claim token, operators   *)
(* cancel, rescue, dismiss and reprioritize.  Every operation is one       *)
(* transaction of the single writer, so it is one step here; it also       *)
(* appends its facts to the journal.  A transaction that fails is rolled   *)
(* back and is no step.                                                    *)
(*                                                                         *)
(* ClaimDue, Complete and Heartbeat read the clock before they wait for    *)
(* the writer: they use an instant `at' that may lie in the past.  A       *)
(* worker may present the token of a claim it has long lost.               *)
(***************************************************************************)
EXTENDS Integers, Sequences, FiniteSets

CONSTANTS
  NumTasks,     \* bound: task ids
  Owner,        \* workers
  NoOwner,      \* lease_owner = ''
  Key,          \* dedup keys in use
  NoKey,        \* dedup_key = ''
  Prio,         \* priorities in use
  Budget,       \* attempt budgets (MaxAttempts) in use
  Delays,       \* delays in use: NotBefore, backoff and requeue delay
  Leases,       \* lease durations in use
  AgePerPoint,  \* PriorityAgingDaysPerPoint, in ticks of the clock
  MaxBonus,     \* PriorityAgingMaxBonus
  MaxClaims,    \* bound: claims granted
  MaxClock,     \* bound: the clock
  MaxFacts      \* bound: facts of a task that is still being reprioritized

ASSUME TaskQueueAssumption ==
  /\ NumTasks \in Nat /\ MaxClaims \in Nat /\ MaxClock \in Nat /\ MaxFacts \in Nat
  /\ AgePerPoint \in Nat /\ MaxBonus \in Nat
  /\ NoOwner \notin Owner /\ NoKey \notin Key
  /\ Prio \subseteq Int /\ Budget \subseteq Nat \ {0}
  /\ Delays \subseteq Nat /\ Leases \subseteq Nat \ {0}

VARIABLES
  row,      \* the tasks table, with the calls to Enqueue under way
  facts,    \* the journal, per task
  claims,   \* the claims granted: what each worker was told; index = token
  clock

vars == <<row, facts, claims, clock>>

Task == 1..NumTasks

Status == {"pending", "running", "completed", "dead", "cancelled"}

\* No row: nobody uses the id yet; its Enqueue is under way; its Enqueue was
\* suppressed as a duplicate or refused for a missing dependency.
NoRow == {"absent", "calling", "refused"}

\* lease_token and lease_expires are 0 where the column is NULL.
Row == [status : Status \cup NoRow, key : Key \cup {NoKey}, deps : SUBSET Task,
        prio : Int, attempts : Nat, max : Nat, notBefore : Nat, created : Nat,
        owner : Owner \cup {NoOwner}, expires : Nat, token : Nat]

FactType == {"enqueued", "claimed", "completed", "failed", "dead-lettered",
             "cancelled", "cancel-requested", "released", "requeued", "orphaned",
             "reprioritized"}
Fact == [type : FactType, owner : Owner \cup {NoOwner}, attempt : Nat]

\* open: the worker has not finished with this claim itself.
Claim == [task : Task, owner : Owner, since : Nat, until : Nat, open : BOOLEAN]

TypeOK ==
  /\ row \in [Task -> Row]
  /\ facts \in [Task -> Seq(Fact)]
  /\ claims \in Seq(Claim)
  /\ clock \in Nat

Blank == [status |-> "absent", key |-> NoKey, deps |-> {}, prio |-> 0,
          attempts |-> 0, max |-> 0, notBefore |-> 0, created |-> 0,
          owner |-> NoOwner, expires |-> 0, token |-> 0]

Init ==
  /\ row = [t \in Task |-> Blank]
  /\ facts = [t \in Task |-> <<>>]
  /\ claims = <<>>
  /\ clock = 1

-----------------------------------------------------------------------------
(* Helpers *)

Exists(t) == row[t].status \in Status

F(type, owner, attempt) == [type |-> type, owner |-> owner, attempt |-> attempt]

\* appendFact, in the transaction of the change it records.
Record(t, fs) == facts' = [facts EXCEPT ![t] = @ \o fs]

Has(t, type) == \E i \in 1..Len(facts[t]) : facts[t][i].type = type

\* The row with the lease columns cleared.
Released(r) == [r EXCEPT !.owner = NoOwner, !.expires = 0, !.token = 0]

\* The worker that made claim k is done with it.
Close(k) == claims' = [claims EXCEPT ![k].open = FALSE]

\* The fence of every finalize: status = 'running' AND lease_token = ?.
Fenced(k) ==
  LET r == row[claims[k].task] IN r.status = "running" /\ r.token = k

\* Instants a call waiting for the writer may have read since the claim.
Instants(k) == claims[k].since..clock

-----------------------------------------------------------------------------
(* Enqueue *)

\* Up to the lookup of the dedup key, outside the transaction: a key already
\* stored ends the call.
EnqueueLookup(t, key, deps, prio, max, delay) ==
  /\ row[t].status = "absent"
  /\ key # NoKey => ~\E u \in Task : Exists(u) /\ row[u].key = key
  /\ row' = [row EXCEPT ![t] =
       [Blank EXCEPT !.status = "calling", !.key = key, !.deps = deps,
                     !.prio = prio, !.max = max, !.notBefore = delay,
                     !.created = clock]]
  /\ UNCHANGED <<facts, claims, clock>>

\* Mutant of Duplicate: no re-check inside the transaction.
DuplicateUnchecked(t) == FALSE

\* insertTask's re-check of the key.
Duplicate(t) ==
  row[t].key # NoKey /\ \E u \in Task : Exists(u) /\ row[u].key = row[t].key

\* Mutant of DepsExist: what another call is about to insert counts.
DepsExistOrComing(t) == \A d \in row[t].deps : row[d].status # "absent"

\* validateDeps.
DepsExist(t) == \A d \in row[t].deps : Exists(d)

\* insertTask: re-check, validate, insert and record.
EnqueueInsert(t) ==
  /\ row[t].status = "calling"
  /\ IF Duplicate(t) \/ ~DepsExist(t)
       THEN /\ row' = [row EXCEPT ![t] = [Blank EXCEPT !.status = "refused"]]
            /\ UNCHANGED facts
       ELSE /\ row' = [row EXCEPT ![t].status = "pending"]
            /\ Record(t, <<F("enqueued", NoOwner, 0)>>)
  /\ UNCHANGED <<claims, clock>>

-----------------------------------------------------------------------------
(* ClaimDue *)

\* Mutant of Due: a lease that runs is no obstacle.
DueRunning(t, at) ==
  \/ row[t].status = "pending" /\ row[t].notBefore <= at
  \/ row[t].status = "running"

\* candidateSQL: pending and due, or running on an expired lease.
Due(t, at) ==
  \/ row[t].status = "pending" /\ row[t].notBefore <= at
  \/ row[t].status = "running" /\ row[t].expires # 0 /\ row[t].expires <= at

\* Mutant of DepsMet: a dependency that is over will do.
DepsMetByEnd(t) ==
  \A d \in row[t].deps : Exists(d) => row[d].status \in {"completed", "dead", "cancelled"}

\* candidateSQL: no dependency that is not completed.
DepsMet(t) == \A d \in row[t].deps : Exists(d) => row[d].status = "completed"

\* Mutant of Effective: the bonus grows with the time of creation.
EffectiveNewest(t, at) ==
  LET age == row[t].created - at
      cap == MaxBonus * AgePerPoint
  IN  row[t].prio * AgePerPoint + (IF age < cap THEN age ELSE cap)

\* candidateSQL: stored priority and the bounded age bonus, times AgePerPoint.
Effective(t, at) ==
  LET age == at - row[t].created
      cap == MaxBonus * AgePerPoint
  IN  row[t].prio * AgePerPoint + (IF age < cap THEN age ELSE cap)

\* candidateSQL: the ORDER BY.
Before(t, u, at) ==
  LET et == Effective(t, at)
      eu == Effective(u, at)
  IN  \/ et > eu
      \/ et = eu /\ row[t].created < row[u].created
      \/ et = eu /\ row[t].created = row[u].created /\ t < u

Candidates(at) == {t \in Task : Due(t, at) /\ DepsMet(t)}

\* selectCandidate.
First(t, at) ==
  t \in Candidates(at) /\ \A u \in Candidates(at) \ {t} : Before(t, u, at)

\* stampLease, after fs was recorded for the previous holder.
Stamp(t, o, at, lease, fs) ==
  /\ Len(claims) < MaxClaims
  /\ row' = [row EXCEPT ![t].status = "running", ![t].owner = o,
                        ![t].expires = at + lease, ![t].token = Len(claims) + 1]
  /\ Record(t, fs \o <<F("claimed", o, 0)>>)
  /\ claims' = Append(claims, [task |-> t, owner |-> o, since |-> clock,
                               until |-> at + lease, open |-> TRUE])
  /\ UNCHANGED clock

\* finalizeReclaim with a cancel request: the claim yields nothing.
FinalizeCancel(t, o) ==
  /\ row' = [row EXCEPT ![t] = [Released(@) EXCEPT !.status = "cancelled"]]
  /\ Record(t, <<F("released", row[t].owner, 0), F("cancelled", o, 0)>>)
  /\ UNCHANGED <<claims, clock>>

ClaimDue(o, at, lease) ==
  \E t \in Task :
    /\ First(t, at)
    /\ \/ /\ row[t].status = "pending"
          /\ Stamp(t, o, at, lease, <<>>)
       \/ /\ row[t].status = "running" /\ ~Has(t, "cancel-requested")
          /\ Stamp(t, o, at, lease, <<F("released", row[t].owner, 0)>>)
       \/ /\ row[t].status = "running" /\ Has(t, "cancel-requested")
          /\ FinalizeCancel(t, o)

-----------------------------------------------------------------------------
(* The holder of claim k *)

\* Complete: the lease must also have been valid when the call began.
Complete(k, at) ==
  LET t == claims[k].task IN
  /\ Fenced(k) /\ row[t].expires > at
  /\ row' = [row EXCEPT ![t] = [Released(@) EXCEPT !.status = "completed"]]
  /\ Record(t, <<F("completed", row[t].owner, 0)>>)
  /\ Close(k)
  /\ UNCHANGED clock

\* Mutant of Exhausted: one attempt too many.
ExhaustedLate(t) == row[t].attempts + 1 > row[t].max

\* Fail: was this the last attempt of the budget?
Exhausted(t) == row[t].attempts + 1 >= row[t].max

\* deadLetter, permanently (which also stamps the budget) or not.
DeadLetter(k, max) ==
  LET t == claims[k].task
      n == row[t].attempts + 1 IN
  /\ row' = [row EXCEPT ![t] =
       [Released(@) EXCEPT !.status = "dead", !.attempts = n, !.max = max]]
  /\ Record(t, <<F("failed", row[t].owner, n), F("dead-lettered", row[t].owner, n)>>)

\* Mutant of RetryRow: attempts are counted down.
RetryRowCountsDown(k, backoff) ==
  LET t == claims[k].task
      n == row[t].attempts - 1 IN
  /\ row' = [row EXCEPT ![t] =
       [Released(@) EXCEPT !.status = "pending", !.attempts = n,
                           !.notBefore = clock + backoff]]
  /\ Record(t, <<F("failed", row[t].owner, n)>>)

\* retryRow: back to pending, after the backoff.
RetryRow(k, backoff) ==
  LET t == claims[k].task
      n == row[t].attempts + 1 IN
  /\ row' = [row EXCEPT ![t] =
       [Released(@) EXCEPT !.status = "pending", !.attempts = n,
                           !.notBefore = clock + backoff]]
  /\ Record(t, <<F("failed", row[t].owner, n)>>)

Fail(k, backoff) ==
  LET t == claims[k].task IN
  /\ Fenced(k)
  /\ IF Exhausted(t) THEN DeadLetter(k, row[t].max) ELSE RetryRow(k, backoff)
  /\ Close(k)
  /\ UNCHANGED clock

FailPermanent(k) ==
  /\ Fenced(k)
  /\ DeadLetter(k, row[claims[k].task].attempts + 1)
  /\ Close(k)
  /\ UNCHANGED clock

\* Mutant of Requeue: the fact is forgotten.
RequeueUnrecorded(k, delay) ==
  LET t == claims[k].task IN
  /\ Fenced(k)
  /\ row' = [row EXCEPT ![t] =
       [Released(@) EXCEPT !.status = "pending", !.notBefore = clock + delay]]
  /\ Close(k)
  /\ UNCHANGED <<facts, clock>>

\* Requeue: back to pending, no attempt counted.
Requeue(k, delay) ==
  LET t == claims[k].task IN
  /\ Fenced(k)
  /\ row' = [row EXCEPT ![t] =
       [Released(@) EXCEPT !.status = "pending", !.notBefore = clock + delay]]
  /\ Record(t, <<F("requeued", row[t].owner, 0)>>)
  /\ Close(k)
  /\ UNCHANGED clock

\* Mutant of Heartbeat: the lease is extended without asking for the token.
HeartbeatUnfenced(k, at, extend) ==
  LET t == claims[k].task IN
  /\ row[t].status = "running" /\ row[t].expires > at
  /\ row' = [row EXCEPT ![t].expires = at + extend]
  /\ claims' = [claims EXCEPT ![k].until = at + extend]
  /\ UNCHANGED <<facts, clock>>

\* Heartbeat: renews a lease that had not expired when the call began.
Heartbeat(k, at, extend) ==
  LET t == claims[k].task IN
  /\ Fenced(k) /\ row[t].expires > at
  /\ row' = [row EXCEPT ![t].expires = at + extend]
  /\ claims' = [claims EXCEPT ![k].until = at + extend]
  /\ UNCHANGED <<facts, clock>>

\* CancelOwned: the worker stopped what a cancel was requested for.
CancelOwned(k) ==
  LET t == claims[k].task IN
  /\ Fenced(k)
  /\ row' = [row EXCEPT ![t] = [Released(@) EXCEPT !.status = "cancelled"]]
  /\ Record(t, <<F("cancelled", row[t].owner, 0)>>)
  /\ Close(k)
  /\ UNCHANGED clock

-----------------------------------------------------------------------------
(* Operators *)

\* Cancel: only a pending task; the token column is not touched.
Cancel(t) ==
  /\ row[t].status = "pending"
  /\ row' = [row EXCEPT ![t] =
       [@ EXCEPT !.status = "cancelled", !.owner = NoOwner, !.expires = 0]]
  /\ Record(t, <<F("cancelled", NoOwner, 0)>>)
  /\ UNCHANGED <<claims, clock>>

\* CancelRunning: the fact is the flag; once.
CancelRunning(t) ==
  /\ row[t].status = "running" /\ ~Has(t, "cancel-requested")
  /\ Record(t, <<F("cancel-requested", NoOwner, 0)>>)
  /\ UNCHANGED <<row, claims, clock>>

\* MarkOrphaned: every task stranded before the cutoff, once per task.
MarkOrphaned(cutoff) ==
  LET stranded(t) == /\ row[t].status = "running"
                     /\ row[t].expires # 0 /\ row[t].expires < cutoff
                     /\ ~Has(t, "orphaned") IN
  /\ \E t \in Task : stranded(t)
  /\ facts' = [t \in Task |->
       IF stranded(t) THEN Append(facts[t], F("orphaned", row[t].owner, 0))
                      ELSE facts[t]]
  /\ UNCHANGED <<row, claims, clock>>

\* Mutant of RescueDead: a cancelled task comes back as well.
RescueDeadOrCancelled(t, max) ==
  /\ row[t].status \in {"dead", "cancelled"}
  /\ row' = [row EXCEPT ![t] =
       [@ EXCEPT !.status = "pending", !.attempts = 0, !.max = max,
                 !.notBefore = 0, !.owner = NoOwner, !.expires = 0]]
  /\ Record(t, <<F("enqueued", NoOwner, 0)>>)
  /\ UNCHANGED <<claims, clock>>

\* RescueDead: a fresh budget, due at once.
RescueDead(t, max) ==
  /\ row[t].status = "dead"
  /\ row' = [row EXCEPT ![t] =
       [@ EXCEPT !.status = "pending", !.attempts = 0, !.max = max,
                 !.notBefore = 0, !.owner = NoOwner, !.expires = 0]]
  /\ Record(t, <<F("enqueued", NoOwner, 0)>>)
  /\ UNCHANGED <<claims, clock>>

DismissDead(t) ==
  /\ row[t].status = "dead"
  /\ row' = [row EXCEPT ![t] =
       [@ EXCEPT !.status = "cancelled", !.owner = NoOwner, !.expires = 0]]
  /\ Record(t, <<F("cancelled", NoOwner, 0)>>)
  /\ UNCHANGED <<claims, clock>>

\* UpdatePendingPriority: a new value of a pending task only.
UpdatePendingPriority(t, prio) ==
  /\ Len(facts[t]) < MaxFacts
  /\ row[t].status = "pending" /\ row[t].prio # prio
  /\ row' = [row EXCEPT ![t].prio = prio]
  /\ Record(t, <<F("reprioritized", NoOwner, 0)>>)
  /\ UNCHANGED <<claims, clock>>

Tick ==
  /\ clock < MaxClock
  /\ clock' = clock + 1
  /\ UNCHANGED <<row, facts, claims>>

-----------------------------------------------------------------------------

Produce(t) ==
  \/ \E key \in Key \cup {NoKey}, deps \in SUBSET Task, prio \in Prio,
        max \in Budget, delay \in Delays :
       EnqueueLookup(t, key, deps, prio, max, delay)
  \/ EnqueueInsert(t)

Work(k) ==
  \/ \E at \in Instants(k) : Complete(k, at)
  \/ \E at \in Instants(k), extend \in Leases : Heartbeat(k, at, extend)
  \/ \E delay \in Delays : Fail(k, delay) \/ Requeue(k, delay)
  \/ FailPermanent(k) \/ CancelOwned(k)

Operate(t) ==
  \/ Cancel(t) \/ CancelRunning(t) \/ DismissDead(t)
  \/ \E max \in Budget : RescueDead(t, max)
  \/ \E prio \in Prio : UpdatePendingPriority(t, prio)

Next ==
  \/ \E t \in Task : Produce(t) \/ Operate(t)
  \/ \E o \in Owner, at \in 1..clock, lease \in Leases : ClaimDue(o, at, lease)
  \/ \E k \in 1..Len(claims) : Work(k)
  \/ \E cutoff \in 1..clock : MarkOrphaned(cutoff)
  \/ Tick

Spec == Init /\ [][Next]_vars

-----------------------------------------------------------------------------
(* Properties *)

\* Fencing (ADR-0134): a row is leased exactly while it runs, under the token
\* of the newest claim of that task, for the worker and up to the deadline
\* that claim was given; every older token is worthless.
LeaseOfNewestClaim ==
  \A t \in Task : LET r == row[t] IN
    IF r.status = "running"
      THEN /\ r.token \in 1..Len(claims)
           /\ claims[r.token].task = t /\ claims[r.token].open
           /\ claims[r.token].owner = r.owner /\ claims[r.token].until = r.expires
           /\ \A k \in (r.token + 1)..Len(claims) : claims[k].task # t
      ELSE r.token = 0 /\ r.expires = 0 /\ r.owner = NoOwner

\* Mutual exclusion: a worker that has not finished and whose deadline
\* (LeaseUntil, or the last renewal) is not over still holds its task, so no
\* two workers ever both have reason to run one task.
ValidLeaseIsHeld ==
  \A k \in 1..Len(claims) :
    claims[k].open /\ clock < claims[k].until => Fenced(k)

\* The attempts of a task that can still run are below its budget, and a dead
\* task used its whole budget (a permanent failure stamps it).
BudgetRespected ==
  \A t \in Task :
    /\ row[t].status \in {"pending", "running"} => row[t].attempts < row[t].max
    /\ row[t].status = "dead" => row[t].attempts = row[t].max

\* A task that was ever claimed had all its dependencies completed, and they
\* still are; the dependencies of a stored task are stored.
DepsRespected ==
  \A t \in Task : Exists(t) =>
    /\ \A d \in row[t].deps : Exists(d)
    /\ Has(t, "claimed") => \A d \in row[t].deps : row[d].status = "completed"

\* validateDeps is also the cycle guard (ErrDanglingDep): a set of stored
\* tasks each of which waits for another of the set does not come about, even
\* when the tasks are enqueued concurrently.
NoDepCycle ==
  \A S \in SUBSET {t \in Task : Exists(t)} :
    S # {} => \E t \in S : row[t].deps \cap S = {}

\* Idempotent enqueue: one stored task per dedup key, by the re-check alone (the
\* partial unique index behind it is not modelled).
DedupUnique ==
  \A t, u \in Task :
    Exists(t) /\ Exists(u) /\ row[t].key # NoKey /\ row[t].key = row[u].key => t = u

\* The facts that say something about the status of the task, and those that
\* carry its attempts.
Lifecycle == FactType \ {"cancel-requested", "orphaned", "reprioritized"}
Counted == {"failed", "enqueued"}

\* The position of the newest fact of these types in the journal fs, if any.
Newest(fs, types) ==
  {i \in 1..Len(fs) : /\ fs[i].type \in types
                      /\ \A j \in (i + 1)..Len(fs) : fs[j].type \notin types}

\* The status a fact leaves the task in.
StatusAfter(type) ==
  CASE type \in {"enqueued", "failed", "requeued"} -> "pending"
    [] type \in {"claimed", "released"} -> "running"
    [] type = "completed" -> "completed"
    [] type = "dead-lettered" -> "dead"
    [] type = "cancelled" -> "cancelled"

\* "All derived views (queue, DLQ, stats) are projections over these facts"
\* (facts.go): the journal of a task gives its status and its attempts.
JournalExplainsRow ==
  \A t \in Task :
    IF Exists(t)
      THEN /\ \E i \in Newest(facts[t], Lifecycle) :
                row[t].status = StatusAfter(facts[t][i].type)
           /\ \E i \in Newest(facts[t], Counted) :
                row[t].attempts = facts[t][i].attempt
      ELSE facts[t] = <<>>

\* What may follow a lifecycle fact in the journal of a task.
Follows(f, g) ==
  CASE f.type = "claimed" ->
         /\ g.type \in {"completed", "failed", "requeued", "released", "cancelled"}
         /\ g.owner = f.owner
    [] f.type = "released" -> g.type \in {"claimed", "cancelled"}
    [] f.type \in {"enqueued", "requeued"} -> g.type \in {"claimed", "cancelled"}
    [] f.type = "failed" -> g.type \in {"claimed", "cancelled", "dead-lettered"}
    [] f.type = "dead-lettered" -> g.type \in {"enqueued", "cancelled"}
    [] OTHER -> FALSE

\* No lifecycle fact comes between the ones at positions i and j of fs.
Adjacent(fs, i, j) ==
  /\ i < j /\ fs[i].type \in Lifecycle /\ fs[j].type \in Lifecycle
  /\ \A k \in (i + 1)..(j - 1) : fs[k].type \notin Lifecycle

\* Every claim in the journal is ended once, by a fact attributed to its
\* worker, before the next claim; nothing follows a terminal fact.
JournalIsLifecycle ==
  \A t \in Task : \A i, j \in 1..Len(facts[t]) :
    Adjacent(facts[t], i, j) => Follows(facts[t][i], facts[t][j])

\* task.CanTransitionTo: its table, with the insert and the reclaim of a
\* running task.
CanTransitionTo(from, to) ==
  \/ from \in {"absent", "calling"} /\ to \in {"calling", "refused", "pending"}
  \/ from = "pending" /\ to \in {"running", "cancelled"}
  \/ from = "running" /\ to \in {"pending", "completed", "dead", "cancelled"}
  \/ from = "dead" /\ to \in {"pending", "cancelled"}

\* No step changes a status in a way the transition table does not list, and
\* the journal is append-only.
LegalTransitions ==
  [][\A t \in Task :
       /\ row'[t].status # row[t].status => CanTransitionTo(row[t].status, row'[t].status)
       /\ SubSeq(facts'[t], 1, Len(facts[t])) = facts[t]]_vars

\* Fairness of ClaimDue's order: a task that is due and waits for nothing is
\* never overtaken by one that is neither more important nor older, although
\* the age bonus is capped and the claim may use an instant before either was
\* created.
NotOvertaken ==
  [][\A t, u \in Task :
       /\ row[u].status = "pending" /\ row[u].notBefore = 0 /\ DepsMet(u)
       /\ row[u].prio >= row[t].prio /\ row[u].created < row[t].created
       => row'[t].token \in {0, row[t].token}]_vars

\* "the task is never re-executed after its cancel was requested"
\* (queue/sqlite/claim.go).
NeverReexecutedAfterCancelRequest ==
  \A t \in Task : \A i, j \in 1..Len(facts[t]) :
    i < j /\ facts[t][i].type = "cancel-requested" => facts[t][j].type # "claimed"
=============================================================================

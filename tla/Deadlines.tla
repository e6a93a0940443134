----------------------------- MODULE Deadlines -----------------------------
(***************************************************************************)
(* Timers: an application schedules and cancels deadlines in the claims    *)
(* table of an engine; schedulers, one per process, each with a TimerStore *)
(* of its own, claim what is due under a lease, dispatch it as a command,  *)
(* and delete it, guarded by the epoch (the FireAt) they claimed.  The     *)
(* commands of some timers pass the idempotency middleware.                *)
(*                                                                         *)
(* Every statement on the table is a step.  Nothing bounds the time a      *)
(* dispatch takes and no lease is renewed, so a lease may lapse at any     *)
(* moment.  Every Schedule that inserts a row begins a generation; the     *)
(* number of it is history the code does not have.                         *)
(***************************************************************************)
EXTENDS Naturals, Sequences

CONSTANTS
  Timer,       \* timer ids
  Keyed,       \* generations whose command carries an idempotency key
  Corrupt,     \* timers whose stored payload does not decode
  Proc,        \* processes, each with a scheduler and a TimerStore
  Canceller,   \* processes whose application cancels timers
  FreshDue,    \* the application never gives a timer the same FireAt again
  Outcomes,    \* what the command handler may end with
  Faults,      \* the calls that may fail, and "crash"
  Limit,       \* metaengine.DefaultClaimLimit
  MaxRetries,  \* WithMaxRetries
  MaxDue,      \* bound: the instants timers fire at
  MaxGen,      \* bound: generations
  MaxFaults    \* bound: faults

ASSUME DeadlinesAssumption ==
  /\ Keyed \subseteq 1..MaxGen /\ Corrupt \subseteq Timer
  /\ Canceller \subseteq Proc /\ FreshDue \in BOOLEAN
  /\ Outcomes \subseteq {"transient", "permanent"}
  /\ Faults \subseteq {"claim", "delete", "record", "crash"}
  /\ {Limit, MaxRetries} \subseteq Nat \ {0}
  /\ {MaxDue, MaxGen, MaxFaults} \subseteq Nat

VARIABLES
  row,     \* meta_due_claims
  gens,    \* (history) the generations: of which timer, for when, how often
           \* the handler ran to its end (2: twice or more), cancelled, whether
           \* a lease on it ever lapsed, whether its idempotency record ever
           \* expired, whether the Due that claimed it had claimed an earlier
           \* generation of the timer (a twin)
  epochs,  \* TimerStore.epochs of every process; 0 is no entry
  sched,   \* the scheduler of every process, in its tick
  cancel,  \* the timer the application of a process is cancelling
  seen,    \* the idempotency keys with a record within its TTL
  clock,
  faults

vars == <<row, gens, epochs, sched, cancel, seen, clock, faults>>

Instant == 1..MaxDue
Gen == 1..MaxGen

Row == [g : 0..MaxGen, due : 0..MaxDue, leased : BOOLEAN]

Generation == [t : Timer, due : Instant, fired : 0..2, cancelled : BOOLEAN,
               lapsed : BOOLEAN, expired : BOOLEAN, twin : BOOLEAN]

\* A timer as Due returned it, and what tick is at.
Claimed == [t : Timer, g : Gen]
Tick == [pc : {"idle", "due", "dispatch", "handle", "mark", "delete"},
         now : 0..MaxDue, todo : Seq(Claimed), tries : 0..MaxRetries, epoch : 0..MaxDue]

TypeOK ==
  /\ row \in [Timer -> Row]
  /\ gens \in Seq(Generation)
  /\ epochs \in [Proc -> [Timer -> 0..MaxDue]]
  /\ sched \in [Proc -> Tick]
  /\ cancel \in [Proc -> {"none"} \cup Timer]
  /\ seen \subseteq Gen
  /\ clock \in 0..MaxDue /\ faults \in 0..MaxFaults
  /\ \A t \in Timer : row[t].g # 0 => row[t].g <= Len(gens) /\ gens[row[t].g].t = t

NoRow == [g |-> 0, due |-> 0, leased |-> FALSE]
Idle == [pc |-> "idle", now |-> 0, todo |-> <<>>, tries |-> 0, epoch |-> 0]

Init ==
  /\ row = [t \in Timer |-> NoRow] /\ gens = <<>>
  /\ epochs = [p \in Proc |-> [t \in Timer |-> 0]]
  /\ sched = [p \in Proc |-> Idle] /\ cancel = [p \in Proc |-> "none"]
  /\ seen = {} /\ clock = 0 /\ faults = 0

-----------------------------------------------------------------------------
(* The application *)

Fault(f) == f \in Faults /\ faults < MaxFaults /\ faults' = faults + 1

\* Schedule: ClaimInsert leaves a row that is there untouched.
Schedule(t, due) ==
  /\ row[t].g = 0 /\ Len(gens) < MaxGen
  /\ FreshDue => \A g \in 1..Len(gens) : gens[g].t = t => gens[g].due # due
  /\ row' = [row EXCEPT ![t] = [g |-> Len(gens) + 1, due |-> due, leased |-> FALSE]]
  /\ gens' = Append(gens, [t |-> t, due |-> due, fired |-> 0, cancelled |-> FALSE,
                           lapsed |-> FALSE, expired |-> FALSE, twin |-> FALSE])
  /\ UNCHANGED <<epochs, sched, cancel, seen, clock, faults>>

\* Cancel, through the TimerStore of process p: takeEpoch ...
Cancel(p, t) ==
  /\ p \in Canceller /\ cancel[p] = "none"
  /\ row[t].g # 0 \/ epochs[p][t] # 0
  /\ cancel' = [cancel EXCEPT ![p] = t]
  /\ epochs' = [epochs EXCEPT ![p][t] = 0]
  /\ UNCHANGED <<row, gens, sched, seen, clock, faults>>

\* ... then ClaimDelete, of the row that is there by now.
CancelDelete(p) ==
  LET t == cancel[p] IN
  /\ t # "none"
  /\ \/ /\ row' = [row EXCEPT ![t] = NoRow]
        /\ gens' = [g \in DOMAIN gens |->
             IF g = row[t].g THEN [gens[g] EXCEPT !.cancelled = TRUE] ELSE gens[g]]
        /\ UNCHANGED faults
     \/ Fault("delete") /\ UNCHANGED <<row, gens>>
  /\ cancel' = [cancel EXCEPT ![p] = "none"]
  /\ UNCHANGED <<epochs, sched, seen, clock>>

-----------------------------------------------------------------------------
(* The scheduler of process p *)

\* The instant of the tick: the one it began at.
Now(x) == IF x.pc = "idle" THEN clock ELSE x.now

\* Mutant of Claimable: the lease is no fence.
ClaimableLeased(p) == {t \in Timer : row[t].g # 0 /\ row[t].due <= Now(sched[p])}

\* Mutant of Claimable: a row that was ever leased is claimed by nobody else
\* (lease_until IS NULL, without the second half of the predicate).
ClaimableNever(p) ==
  {t \in Timer : /\ row[t].g # 0 /\ row[t].due <= Now(sched[p])
                 /\ ~row[t].leased /\ ~gens[row[t].g].lapsed}

\* claimPredicates: due, and on no lease that runs.  The tick's own leases run
\* at the instant of the tick.
Claimable(p) ==
  {t \in Timer :
     /\ row[t].g # 0 /\ row[t].due <= Now(sched[p]) /\ ~row[t].leased
     /\ \A i \in 1..Len(sched[p].todo) : sched[p].todo[i].g # row[t].g}

\* scanClaimsWithIDs sorts what RETURNING emits; timers due at the same instant
\* are in either order here (the code sorts them by key).
DueOrder(b) == \A i, j \in DOMAIN b : i < j => row[b[i]].due <= row[b[j]].due

\* ClaimStmt: the earliest rows up to the limit.
Batches(p) ==
  LET all == Claimable(p)
      taken(b) == {b[i] : i \in DOMAIN b} IN
  {b \in UNION {[1..n -> all] : n \in 0..Limit} :
     /\ \A i, j \in DOMAIN b : b[i] = b[j] => i = j
     /\ DueOrder(b)
     /\ Len(b) < Limit => taken(b) = all
     /\ \A t \in taken(b), u \in all \ taken(b) : row[t].due <= row[u].due}

\* The timers of a batch that decode before the first that does not.
Decoded(b) ==
  LET upTo(m) == /\ \A i \in 1..m : b[i] \notin Corrupt
                 /\ m < Len(b) => b[m + 1] \in Corrupt IN
  {[i \in 1..m |-> [t |-> b[i], g |-> row[b[i]].g]] : m \in {k \in 0..Len(b) : upTo(k)}}

\* Due returned: tick dispatches what it got.
Got(x) == [x EXCEPT !.pc = IF x.todo = <<>> THEN "idle" ELSE "dispatch", !.now = 0]

\* Generation g is in the batch, and an earlier one of its timer in the tick.
Twin(p, batch, g) ==
  /\ \E i \in DOMAIN batch : batch[i].g = g
  /\ \E i \in DOMAIN sched[p].todo : sched[p].todo[i].t = gens[g].t

\* Due: one ClaimDue; another one after a full batch.
ClaimDue(p) ==
  /\ sched[p].pc = "due" \/ (sched[p].pc = "idle" /\ Claimable(p) # {})
  /\ \/ \E b \in Batches(p) : \E good \in Decoded(b) :
          LET x == [sched[p] EXCEPT !.todo = @ \o good] IN
          /\ row' = [t \in Timer |-> IF \E i \in DOMAIN b : b[i] = t
                                       THEN [row[t] EXCEPT !.leased = TRUE] ELSE row[t]]
          /\ epochs' = [epochs EXCEPT ![p] = [t \in Timer |->
               IF \E i \in DOMAIN good : good[i].t = t THEN row[t].due ELSE @[t]]]
          /\ sched' = [sched EXCEPT ![p] =
               IF Len(good) < Limit THEN Got(x)
               ELSE [x EXCEPT !.pc = "due", !.now = Now(sched[p])]]
          /\ gens' = [g \in DOMAIN gens |-> [gens[g] EXCEPT !.twin = @ \/ Twin(p, good, g)]]
          /\ UNCHANGED faults
     \/ /\ Fault("claim") /\ sched' = [sched EXCEPT ![p] = Got(@)]
        /\ UNCHANGED <<row, gens, epochs>>
  /\ UNCHANGED <<cancel, seen, clock>>

\* tick goes on with the next timer.
NextTimer(x) ==
  [x EXCEPT !.todo = Tail(@), !.tries = 0, !.epoch = 0,
            !.pc = IF Len(x.todo) = 1 THEN "idle" ELSE "dispatch"]

\* dispatchWithRetry after a failure that may be retried.
Failed(x) ==
  IF x.tries + 1 < MaxRetries THEN [x EXCEPT !.tries = @ + 1, !.pc = "dispatch"]
                              ELSE NextTimer(x)

\* Mutant of Dispatch: the key is not recorded.
DispatchUnrecorded(p) ==
  /\ sched[p].pc = "dispatch"
  /\ sched' = [sched EXCEPT ![p].pc = "handle"]
  /\ UNCHANGED <<row, gens, epochs, cancel, seen, clock, faults>>

\* dispatch, up to the handler: CheckAndRecord of the idempotency middleware
\* refuses a key it knows (ErrDuplicate), whatever became of its command, until
\* the record expires.
Dispatch(p) ==
  LET x == sched[p]
      c == Head(x.todo) IN
  /\ x.pc = "dispatch"
  /\ \/ /\ c.g \notin Keyed
        /\ sched' = [sched EXCEPT ![p].pc = "handle"] /\ UNCHANGED <<seen, faults>>
     \/ /\ c.g \in Keyed /\ c.g \notin seen
        /\ seen' = seen \cup {c.g}
        /\ sched' = [sched EXCEPT ![p].pc = "handle"] /\ UNCHANGED faults
     \/ /\ c.g \in Keyed /\ c.g \in seen
        /\ sched' = [sched EXCEPT ![p] = NextTimer(x)] /\ UNCHANGED <<seen, faults>>
     \/ /\ c.g \in Keyed /\ Fault("record")
        /\ sched' = [sched EXCEPT ![p] = Failed(x)] /\ UNCHANGED seen
  /\ UNCHANGED <<row, gens, epochs, cancel, clock>>

\* The handler returns; a Rejection or a Conflict is not retried.
Handle(p) ==
  LET x == sched[p]
      g == Head(x.todo).g IN
  /\ x.pc = "handle"
  /\ \/ /\ gens' = [gens EXCEPT ![g].fired = IF @ = 0 THEN 1 ELSE 2]
        /\ sched' = [sched EXCEPT ![p] = [x EXCEPT !.pc = "mark", !.tries = 0]]
        /\ UNCHANGED faults
     \/ \E out \in Outcomes :
          /\ faults < MaxFaults /\ faults' = faults + 1
          /\ sched' = [sched EXCEPT ![p] =
               IF out = "transient" THEN Failed(x) ELSE NextTimer(x)]
          /\ UNCHANGED gens
  /\ UNCHANGED <<row, epochs, cancel, seen, clock>>

\* MarkFired: takeEpoch; without an epoch there is nothing to delete.
MarkFired(p) ==
  LET x == sched[p]
      t == Head(x.todo).t IN
  /\ x.pc = "mark"
  /\ epochs' = [epochs EXCEPT ![p][t] = 0]
  /\ sched' = [sched EXCEPT ![p] =
       IF epochs[p][t] = 0 THEN NextTimer(x)
       ELSE [x EXCEPT !.pc = "delete", !.epoch = epochs[p][t]]]
  /\ UNCHANGED <<row, gens, cancel, seen, clock, faults>>

\* Mutant of Stale: whatever row is there is deleted.
StaleNever(r, epoch) == r.g = 0

\* ClaimDeleteIfDue: the row is another generation's, or gone.
Stale(r, epoch) == r.g = 0 \/ r.due # epoch

\* MarkFired: the guarded delete, or its failure, which is only logged.
Delete(p) ==
  LET x == sched[p]
      t == Head(x.todo).t IN
  /\ x.pc = "delete"
  /\ \/ row' = (IF Stale(row[t], x.epoch) THEN row ELSE [row EXCEPT ![t] = NoRow])
        /\ UNCHANGED faults
     \/ Fault("delete") /\ UNCHANGED row
  /\ sched' = [sched EXCEPT ![p] = NextTimer(x)]
  /\ UNCHANGED <<gens, epochs, cancel, seen, clock>>

-----------------------------------------------------------------------------
(* Around them *)

\* lease_until is over.
Lapse(t) ==
  /\ row[t].leased
  /\ row' = [row EXCEPT ![t].leased = FALSE]
  /\ gens' = [gens EXCEPT ![row[t].g].lapsed = TRUE]
  /\ UNCHANGED <<epochs, sched, cancel, seen, clock, faults>>

\* The TTL of the idempotency record of generation g is over.
Expire(g) ==
  /\ g \in seen
  /\ seen' = seen \ {g}
  /\ gens' = [gens EXCEPT ![g].expired = TRUE]
  /\ UNCHANGED <<row, epochs, sched, cancel, clock, faults>>

Clock ==
  /\ clock < MaxDue
  /\ clock' = clock + 1
  /\ UNCHANGED <<row, gens, epochs, sched, cancel, seen, faults>>

\* The process dies and starts again.
Crash(p) ==
  /\ Fault("crash")
  /\ sched' = [sched EXCEPT ![p] = Idle]
  /\ epochs' = [epochs EXCEPT ![p] = [t \in Timer |-> 0]]
  /\ cancel' = [cancel EXCEPT ![p] = "none"]
  /\ UNCHANGED <<row, gens, seen, clock>>

-----------------------------------------------------------------------------

Scheduler(p) == ClaimDue(p) \/ Dispatch(p) \/ Handle(p) \/ MarkFired(p) \/ Delete(p)

Next ==
  \/ \E t \in Timer : Lapse(t) \/ \E due \in Instant : Schedule(t, due)
  \/ \E p \in Proc : Scheduler(p) \/ Crash(p) \/ CancelDelete(p) \/ \E t \in Timer : Cancel(p, t)
  \/ Clock \/ \E g \in Gen : Expire(g)

Spec == Init /\ [][Next]_vars

\* Time passes, schedulers poll, calls return.
FairSpec ==
  /\ Spec
  /\ WF_vars(Clock) /\ \A t \in Timer : WF_vars(Lapse(t))
  /\ WF_vars(\E g \in Gen : Expire(g))
  /\ \A p \in Proc : WF_vars(Scheduler(p))

-----------------------------------------------------------------------------
(* Properties *)

\* The generation fired, was cancelled, or is a twin.
Settled(x) == x.fired > 0 \/ x.cancelled \/ x.twin

\* "a stale MarkFired for generation N cannot delete a re-scheduled generation
\* N+1 scheduled under the same ID": a generation whose row is gone was fired
\* or cancelled.  The exception is a twin: one Due that claims, batch after
\* batch, two generations of a timer keeps the epoch of the later one, and the
\* MarkFired of the earlier then deletes the later before it is dispatched.
NoTimerLost ==
  \A g \in 1..Len(gens) :
    Settled(gens[g]) \/ row[gens[g].t].g = g

\* The lease fences: a timer fires a second time only after a lease on it
\* lapsed, however many processes poll.
FiresOncePerLease ==
  \A g \in 1..Len(gens) : gens[g].fired = 2 => gens[g].lapsed

\* "On subsequent occurrences within the TTL, it returns ErrDuplicate": a timer
\* with an idempotency key fires a second time only after its record expired,
\* through lapsed leases, failed deletes and crashes, however many processes
\* dispatch it at once.
KeyedFiresOncePerTTL ==
  \A g \in 1..Len(gens) : g \in Keyed /\ gens[g].fired = 2 => gens[g].expired

\* "at-least-once": a timer fires in the end, through failed dispatches, failed
\* deletes and crashes, unless it is cancelled, a twin, or a row is corrupt
\* (one such row ends every Due early).  One whose handler failed after its key
\* was recorded is refused until the record expires, and fires then.
EventuallyFires ==
  []<>(\/ \A g \in 1..Len(gens) : Settled(gens[g])
       \/ \E c \in Corrupt : row[c].g # 0)
=============================================================================
